---------------------------- MODULE Spec2Model ----------------------------
(***************************************************************************)
(* A model of the table hunter of source/fitz/stext-table.c                *)
(* (fz_table_hunt and everything it calls).                                *)
(*                                                                         *)
(* The block tree is modelled as the C heap is laid out: blocks, structs,  *)
(* lines and chars are records addressed by small integers (0 is NULL),    *)
(* linked by first/last/prev/next fields, so that the pointer surgery of   *)
(* insert_block_before, unlink_block and move_contained_content is carried *)
(* out field by field.  Coordinates are exact rationals <<n, d>>.          *)
(***************************************************************************)
EXTENDS Integers, Sequences, FiniteSets, TLC

VARIABLES
    page,       \* fz_stext_page: [first_block, last_block]
    blocks,     \* fz_stext_block records, by block id
    structs,    \* fz_stext_struct records, by struct id
    lines,      \* fz_stext_line records, by line id
    chars,      \* fz_stext_char records, by char id
    pc,         \* position of the (single) thread of control
    stack,      \* active do_table_hunt calls, innermost last
    run,        \* how many times fz_table_hunt has been entered
    xs, ys,     \* the two div_lists of the innermost do_table_hunt
    xps, yps,   \* the two fz_stext_grid_positions of the innermost call
    cells,      \* cells_t of check_for_grid_lines: [w, h, cell]
    sent,       \* sent_tab of transcribe_table
    tx, ty,     \* the x and y loop counters of transcribe_table
    table, tr,  \* the struct ids of the Table and of the current TR
    structs1    \* number of structs that existed when the first run ended

vars == <<page, blocks, structs, lines, chars, pc, stack, run, xs, ys,
          xps, yps, cells, sent, tx, ty, table, tr, structs1>>

NULL == 0

(***************************************************************************)
(* Exact arithmetic on the float coordinates: a number is <<n, d>>, d > 0, *)
(* in lowest terms.                                                        *)
(***************************************************************************)
Abs(n) == IF n < 0 THEN -n ELSE n

RECURSIVE GCD(_, _)
GCD(a, b) == IF b = 0 THEN a ELSE GCD(b, a % b)

QNorm(n, d) ==
    LET g == GCD(Abs(n), d)
    IN  IF g = 0 THEN <<0, 1>> ELSE <<n \div g, d \div g>>

Q(k) == <<k, 1>>

QLt(a, b) == a[1] * b[2] < b[1] * a[2]
QLe(a, b) == a[1] * b[2] <= b[1] * a[2]
QGt(a, b) == QLt(b, a)
QGe(a, b) == QLe(b, a)
QAdd(a, b) == QNorm(a[1] * b[2] + b[1] * a[2], a[2] * b[2])
QSub(a, b) == QNorm(a[1] * b[2] - b[1] * a[2], a[2] * b[2])
QHalf(a) == QNorm(a[1], 2 * a[2])
QMin(a, b) == IF QLt(a, b) THEN a ELSE b
QMax(a, b) == IF QGt(a, b) THEN a ELSE b
QMid(a, b) == QHalf(QAdd(a, b))

(***************************************************************************)
(* Rectangles and quads (the geometry helpers the table hunter calls).     *)
(***************************************************************************)
Rect(x0, y0, x1, y1) == [x0 |-> x0, y0 |-> y0, x1 |-> x1, y1 |-> y1]

fz_empty_rect == Rect(Q(1000000), Q(1000000), Q(-1000000), Q(-1000000))

ZeroRect == Rect(Q(0), Q(0), Q(0), Q(0))

fz_is_valid_rect(r) == QLe(r.x0, r.x1) /\ QLe(r.y0, r.y1)

fz_intersect_rect(a, b) ==
    Rect(QMax(a.x0, b.x0), QMax(a.y0, b.y0), QMin(a.x1, b.x1), QMin(a.y1, b.y1))

fz_union_rect(a, b) ==
    IF ~fz_is_valid_rect(b) THEN a
    ELSE IF ~fz_is_valid_rect(a) THEN b
    ELSE Rect(QMin(a.x0, b.x0), QMin(a.y0, b.y0), QMax(a.x1, b.x1), QMax(a.y1, b.y1))

fz_rect_from_quad(q) ==
    Rect(QMin(QMin(q.ll[1], q.ul[1]), QMin(q.lr[1], q.ur[1])),
         QMin(QMin(q.ll[2], q.ul[2]), QMin(q.lr[2], q.ur[2])),
         QMax(QMax(q.ll[1], q.ul[1]), QMax(q.lr[1], q.ur[1])),
         QMax(QMax(q.ll[2], q.ul[2]), QMax(q.lr[2], q.ur[2])))

(***************************************************************************)
(* The heap.  Operators below take a heap h and return the heap after the  *)
(* C function has run.  h.failed records that an assert() of the code was  *)
(* false on the way.                                                       *)
(***************************************************************************)
Heap == [page |-> page, blocks |-> blocks, structs |-> structs,
         lines |-> lines, chars |-> chars, failed |-> FALSE]

\* pool-allocated, zeroed fz_stext_block / fz_stext_line
ZeroBlock == [type |-> "text", bbox |-> ZeroRect, prev |-> NULL, next |-> NULL,
              first_line |-> NULL, last_line |-> NULL, down |-> NULL,
              index |-> 0, xs |-> <<>>, ys |-> <<>>]

ZeroLine == [bbox |-> ZeroRect, first_char |-> NULL, last_char |-> NULL,
             prev |-> NULL, next |-> NULL]

FirstBlock(h, parent) ==
    IF parent # NULL THEN h.structs[parent].first_block ELSE h.page.first_block

LastBlock(h, parent) ==
    IF parent # NULL THEN h.structs[parent].last_block ELSE h.page.last_block

\* the blocks met from b by following next (resp. prev)
RECURSIVE FwdFrom(_, _, _)
FwdFrom(bl, b, fuel) ==
    IF b = NULL \/ fuel = 0 THEN <<>>
    ELSE <<b>> \o FwdFrom(bl, bl[b].next, fuel - 1)

RECURSIVE BwdFrom(_, _, _)
BwdFrom(bl, b, fuel) ==
    IF b = NULL \/ fuel = 0 THEN <<>>
    ELSE <<b>> \o BwdFrom(bl, bl[b].prev, fuel - 1)

FwdList(h, parent) == FwdFrom(h.blocks, FirstBlock(h, parent), Len(h.blocks))
BwdList(h, parent) == BwdFrom(h.blocks, LastBlock(h, parent), Len(h.blocks))

Reverse(s) == [i \in 1..Len(s) |-> s[Len(s) + 1 - i]]

RECURSIVE LinesFrom(_, _, _)
LinesFrom(ln, l, fuel) ==
    IF l = NULL \/ fuel = 0 THEN <<>>
    ELSE <<l>> \o LinesFrom(ln, ln[l].next, fuel - 1)

RECURSIVE CharsFrom(_, _, _)
CharsFrom(cs, c, fuel) ==
    IF c = NULL \/ fuel = 0 THEN <<>>
    ELSE <<c>> \o CharsFrom(cs, cs[c].next, fuel - 1)

BlockLines(h, b) == LinesFrom(h.lines, h.blocks[b].first_line, Len(h.lines))
LineChars(h, l) == CharsFrom(h.chars, h.lines[l].first_char, Len(h.chars))

(***************************************************************************)
(* insert_block_before                                                     *)
(***************************************************************************)
\* lines 471-472, 484-485, 495-496
Link(h, block, prev, next) ==
    [h EXCEPT !.blocks[block].next = next, !.blocks[block].prev = prev]

\* lines 473-479
InsertInFront(h, block, before, dest) ==
    LET bp == h.blocks[before].prev
    IN  [h EXCEPT !.blocks = IF bp # NULL THEN [@ EXCEPT ![bp].next = block] ELSE @,
                  !.structs = IF bp = NULL /\ dest # NULL
                              THEN [@ EXCEPT ![dest].first_block = block] ELSE @,
                  !.page.first_block = IF bp = NULL /\ dest = NULL THEN block ELSE @,
                  !.blocks[before].prev = block]

\* lines 486-490
AppendToStruct(h, block, dest) ==
    LET last == h.structs[dest].last_block
    IN  [h EXCEPT !.blocks = IF last # NULL THEN [@ EXCEPT ![last].next = block] ELSE @,
                  !.structs[dest].first_block = IF @ = NULL THEN block ELSE @,
                  !.structs[dest].last_block = block]

\* lines 497-501; line 499 reads "if (page->first_block)"
AppendToPage(h, block) ==
    LET last == h.page.last_block
    IN  [h EXCEPT !.blocks = IF last # NULL THEN [@ EXCEPT ![last].next = block] ELSE @,
                  !.page.first_block = IF @ # NULL THEN block ELSE @,
                  !.page.last_block = block]

InsertBlockBefore(h, block, before, dest) ==
    IF before # NULL
    THEN InsertInFront(Link(h, block, h.blocks[before].prev, before), block, before, dest)
    ELSE IF dest # NULL
    THEN AppendToStruct(Link(h, block, h.structs[dest].last_block, NULL), block, dest)
    ELSE AppendToPage(Link(h, block, h.page.last_block, NULL), block)

(***************************************************************************)
(* unlink_block, called with the first/last pointers of src (or the page)  *)
(***************************************************************************)
UnlinkBlock(h, block, src) ==
    LET p == h.blocks[block].prev
        n == h.blocks[block].next
    IN  [h EXCEPT
           !.blocks = IF p # NULL THEN [@ EXCEPT ![p].next = n] ELSE @,
           !.blocks = IF n # NULL THEN [@ EXCEPT ![n].prev = p] ELSE @,
           !.structs = IF src # NULL
                       THEN [@ EXCEPT ![src].first_block = IF p = NULL THEN n ELSE @,
                                      ![src].last_block = IF n = NULL THEN p ELSE @]
                       ELSE @,
           !.page = IF src = NULL
                    THEN [@ EXCEPT !.first_block = IF p = NULL THEN n ELSE @,
                                   !.last_block = IF n = NULL THEN p ELSE @]
                    ELSE @]

(***************************************************************************)
(* add_struct_block_before                                                 *)
(***************************************************************************)
\* lines 518-525: walk from block up to before, returning [idx, failed]
RECURSIVE StructIdxWalk(_, _, _, _, _, _)
StructIdxWalk(h, block, before, idx, failed, fuel) ==
    IF block = before \/ block = NULL \/ fuel = 0
    THEN [idx |-> idx, failed |-> failed]
    ELSE IF h.blocks[block].type = "struct"
    THEN StructIdxWalk(h, h.blocks[block].next, before, h.blocks[block].index + 1,
                       failed \/ ~(h.blocks[block].index >= idx), fuel - 1)
    ELSE StructIdxWalk(h, h.blocks[block].next, before, idx, failed, fuel - 1)

\* lines 533-540: renumber the structs that follow, starting at `block`
RECURSIVE StructRenumber(_, _, _, _)
StructRenumber(h, block, idx2, fuel) ==
    IF block = NULL \/ fuel = 0 THEN h
    ELSE IF h.blocks[block].type # "struct"
    THEN StructRenumber(h, h.blocks[block].next, idx2, fuel - 1)
    ELSE IF h.blocks[block].index > idx2 THEN h
    ELSE StructRenumber([h EXCEPT !.blocks[block].index = idx2],
                        h.blocks[block].next, idx2 + 1, fuel - 1)

\* line 533: the renumbering starts at before->next
RenumberStart(h, before) == h.blocks[before].next

\* lines 544-555: the new block is Len(h.blocks) + 1, its struct Len(h.structs) + 1
NewStructBlock(h, before, parent, std, w) ==
    [InsertBlockBefore(
         [h EXCEPT !.blocks = Append(@, [ZeroBlock EXCEPT !.type = "struct",
                                           !.bbox = fz_empty_rect,
                                           !.down = Len(h.structs) + 1,
                                           !.index = w.idx]),
                   !.failed = @ \/ w.failed],
         Len(h.blocks) + 1, before, parent)
     EXCEPT !.structs = Append(@, [up |-> Len(h.blocks) + 1, parent |-> parent,
                                   first_block |-> NULL, last_block |-> NULL,
                                   standard |-> std])]

\* the new struct is Len(result.structs), its block is Len(result.blocks)
AddStructBlockBefore(h, before, parent, std) ==
    NewStructBlock(IF before # NULL
                   THEN StructRenumber(h, RenumberStart(h, before),
                            StructIdxWalk(h, FirstBlock(h, parent), before, 0,
                                          FALSE, Len(h.blocks) + 1).idx + 1,
                            Len(h.blocks) + 1)
                   ELSE h,
                   before, parent, std,
                   StructIdxWalk(h, FirstBlock(h, parent), before, 0, FALSE,
                                 Len(h.blocks) + 1))

(***************************************************************************)
(* add_grid_block: prepend a grid block to the list headed by the Table    *)
(***************************************************************************)
AddGridBlock(h, st) ==
    LET block == Len(h.blocks) + 1
        first == h.structs[st].first_block
    IN  [h EXCEPT !.blocks = Append(@, [ZeroBlock EXCEPT !.type = "grid",
                                          !.bbox = fz_empty_rect,
                                          !.next = first]),
                  !.blocks = IF first # NULL THEN [@ EXCEPT ![first].prev = block]
                             ELSE @,
                  !.structs[st].first_block = block]

(***************************************************************************)
(* recalc_bbox, unlink_line_from_block, append_line_to_block               *)
(***************************************************************************)
RECURSIVE UnionLineBoxes(_, _, _)
UnionLineBoxes(h, ls, acc) ==
    IF ls = <<>> THEN acc
    ELSE UnionLineBoxes(h, Tail(ls), fz_union_rect(acc, h.lines[Head(ls)].bbox))

RecalcBboxSkipped(h, block) == h
RecalcBbox(h, block) ==
    [h EXCEPT !.blocks[block].bbox =
                  UnionLineBoxes(h, BlockLines(h, block), fz_empty_rect)]

UnlinkLineFromBlock(h, line, block) ==
    LET n == h.lines[line].next
        p == h.lines[line].prev
    IN  [h EXCEPT
           !.lines = IF p # NULL THEN [@ EXCEPT ![p].next = n] ELSE @,
           !.blocks[block].first_line = IF p = NULL THEN n ELSE @,
           !.lines = IF n # NULL THEN [@ EXCEPT ![n].prev = p] ELSE @,
           !.blocks[block].last_line = IF n = NULL THEN p ELSE @]

PrependLineToBlock(h, line, block) ==
    LET first == h.blocks[block].first_line
    IN  [h EXCEPT !.lines[line].prev = NULL,
                  !.lines[line].next = first,
                  !.lines = IF first # NULL THEN [@ EXCEPT ![first].prev = line] ELSE @,
                  !.blocks[block].first_line = line,
                  !.blocks[block].last_line = IF @ = NULL THEN line ELSE @]
AppendLineToBlock(h, line, block) ==
    LET last == h.blocks[block].last_line
    IN  [h EXCEPT !.blocks[block].first_line = IF last = NULL THEN line ELSE @,
                  !.blocks[block].last_line = line,
                  !.lines[line].prev = last,
                  !.lines = IF last # NULL THEN [@ EXCEPT ![last].next = line] ELSE @,
                  !.lines[line].next = NULL]

(***************************************************************************)
(* move_contained_content                                                  *)
(***************************************************************************)
\* the "trivially excluded" test of lines 1308 and 1330
Excluded(b) == QGt(b.x0, b.x1) \/ QGt(b.y0, b.y1)

\* lines 1315, 1339, 1394: before = block->next
WithBefore(s, block) == [s EXCEPT !.before = s.h.blocks[block].next]

\* lines 1335-1340 / 1388-1395: make the acceptor block on first use.
\* s is [h, newblock, before]
EnsureNewBlock(s, dest) ==
    IF s.newblock # NULL THEN s
    ELSE WithBefore(
             [s EXCEPT !.h = InsertBlockBefore(
                                 [@ EXCEPT !.blocks = Append(@, ZeroBlock)],
                                 Len(s.h.blocks) + 1, s.before, dest),
                       !.newblock = Len(s.h.blocks) + 1],
             Len(s.h.blocks) + 1)

\* lines 1363-1369; c is [h, newline, prev_ch]
EnsureNewLine(c) ==
    IF c.newline # NULL THEN c
    ELSE [c EXCEPT !.h.lines = Append(@, [ZeroLine EXCEPT !.bbox = fz_empty_rect]),
                   !.newline = Len(c.h.lines) + 1]

\* lines 1370-1384: unlink ch from line and append it to c.newline
TakeChar(c, line, ch, crect) ==
    LET next_ch == c.h.chars[ch].next
        last == c.h.lines[c.newline].last_char
    IN  [c EXCEPT
           !.h.lines[line].first_char = IF c.prev_ch = NULL THEN next_ch ELSE @,
           !.h.chars = IF c.prev_ch # NULL THEN [@ EXCEPT ![c.prev_ch].next = next_ch]
                       ELSE @,
           !.h.lines[line].last_char = IF next_ch = NULL THEN c.prev_ch ELSE @,
           !.h.chars[ch].next = NULL,
           !.h.lines[c.newline].first_char = IF last = NULL THEN ch ELSE @,
           !.h.chars = IF last # NULL THEN [@ EXCEPT ![last].next = ch] ELSE @,
           !.h.lines[c.newline].last_char = ch,
           !.h.lines[c.newline].bbox = fz_union_rect(@, crect)]

\* line 1357: the centre of the glyph lies outside r
CentreOutside(crect, r) ==
    \/ QGt(r.x0, QMid(crect.x0, crect.x1))
    \/ QLt(r.x1, QMid(crect.x0, crect.x1))
    \/ QGt(r.y0, QMid(crect.y0, crect.y1))
    \/ QLt(r.y1, QMid(crect.y0, crect.y1))

\* lines 1351-1385: split one line
RECURSIVE MoveChars(_, _, _, _)
MoveChars(c, line, ch, r) ==
    IF ch = NULL THEN c
    ELSE IF CentreOutside(fz_rect_from_quad(c.h.chars[ch].quad), r)
    THEN MoveChars([c EXCEPT !.prev_ch = ch], line, c.h.chars[ch].next, r)
    ELSE MoveChars(TakeChar(EnsureNewLine(c), line, ch,
                            fz_rect_from_quad(c.h.chars[ch].quad)),
                   line, c.h.chars[ch].next, r)

\* lines 1343, 1396: s is [h, newblock, before]
AttachLine(s, line) == [s EXCEPT !.h = AppendLineToBlock(@, line, s.newblock)]

\* lines 1342-1343
TakeLine(s, line, block) ==
    AttachLine([s EXCEPT !.h = UnlinkLineFromBlock(@, line, block)], line)

\* lines 1386-1397: c is what MoveChars returned
TakeNewLine(s, c, dest) ==
    IF c.newline = NULL THEN [s EXCEPT !.h = c.h]
    ELSE AttachLine(EnsureNewBlock([s EXCEPT !.h = c.h], dest), c.newline)

\* lines 1324-1399: the lines of a partially included text block
RECURSIVE MoveLines(_, _, _, _, _)
MoveLines(s, block, line, dest, r) ==
    IF line = NULL THEN s
    ELSE
    LET lb == s.h.lines[line].bbox
        next_line == s.h.lines[line].next
    IN  IF Excluded(fz_intersect_rect(lb, r))
        THEN MoveLines(s, block, next_line, dest, r)
        ELSE IF lb = fz_intersect_rect(lb, r)
        THEN MoveLines(TakeLine(EnsureNewBlock(s, dest), line, block),
                       block, next_line, dest, r)
        ELSE MoveLines(TakeNewLine(s,
                           MoveChars([h |-> s.h, newline |-> NULL, prev_ch |-> NULL],
                                     line, s.h.lines[line].first_char, r),
                           dest),
                       block, next_line, dest, r)

\* lines 1313-1315: a block that lies wholly inside r; s is [h, newblock, before]
MoveWholeBlock(s, block, dest, src) ==
    WithBefore([s EXCEPT !.h = InsertBlockBefore(UnlinkBlock(@, block, src), block,
                                                 s.before, dest)],
               block)

\* lines 1400-1404
RecalcBoth(s, block) ==
    IF s.newblock = NULL THEN s
    ELSE [s EXCEPT !.h = RecalcBbox(RecalcBbox(@, block), s.newblock)]

\* lines 1303-1406: the loop over the blocks of src
RECURSIVE MoveBlocks(_, _, _, _, _)
MoveBlocks(s, block, dest, src, r) ==
    IF block = NULL THEN s
    ELSE
    LET bb == s.h.blocks[block].bbox
        next == s.h.blocks[block].next
    IN  IF Excluded(fz_intersect_rect(bb, r)) THEN MoveBlocks(s, next, dest, src, r)
        ELSE IF fz_intersect_rect(bb, r) = bb
        THEN MoveBlocks(MoveWholeBlock(s, block, dest, src), next, dest, src, r)
        ELSE IF s.h.blocks[block].type = "text"
        THEN MoveBlocks([RecalcBoth(MoveLines([s EXCEPT !.newblock = NULL], block,
                                              s.h.blocks[block].first_line, dest, r),
                                    block)
                         EXCEPT !.newblock = NULL],
                        next, dest, src, r)
        ELSE MoveBlocks(s, next, dest, src, r)

MoveContainedContent(h, dest, src, r) ==
    MoveBlocks([h |-> h, newblock |-> NULL, before |-> FirstBlock(h, dest)],
               FirstBlock(h, src), dest, src, r).h

(***************************************************************************)
(* find_table_insertion_point                                              *)
(***************************************************************************)
RECURSIVE LastOverlapping(_, _, _, _)
LastOverlapping(h, r, block, after) ==
    IF block = NULL THEN after
    ELSE LET s == fz_intersect_rect(r, h.blocks[block].bbox)
         IN  LastOverlapping(h, r, h.blocks[block].next,
                             IF Excluded(s) THEN after ELSE block)

FindTableInsertionPoint(h, r, block) ==
    LET after == LastOverlapping(h, r, block, NULL)
    IN  IF after # NULL THEN h.blocks[after].next ELSE NULL

(***************************************************************************)
(* div_list_push: a div_list is the sequence of its len entries            *)
(***************************************************************************)
\* lines 577-586: where the scan stops; hit = the entry was coalesced
RECURSIVE PushScan(_, _, _, _)
PushScan(div, left, pos, i) ==
    IF i > Len(div) THEN [i |-> i, hit |-> FALSE]
    ELSE IF QGt(div[i].pos, pos) THEN [i |-> i, hit |-> FALSE]
    ELSE IF div[i].pos = pos /\ div[i].left = left THEN [i |-> i, hit |-> TRUE]
    ELSE PushScan(div, left, pos, i + 1)

DivListPush(div, left, pos) ==
    LET s == PushScan(div, left, pos, 1)
    IN  IF s.hit THEN [div EXCEPT ![s.i].freq = @ + 1]
        ELSE SubSeq(div, 1, s.i - 1)
             \o <<[left |-> left, pos |-> pos, freq |-> 1]>>
             \o SubSeq(div, s.i, Len(div))

(***************************************************************************)
(* walk_blocks: e is [xs, ys]                                              *)
(***************************************************************************)
Space == 32

CharLpos(h, ch) == QMin(h.chars[ch].quad.ll[1], h.chars[ch].quad.ul[1])
CharRpos(h, ch) == QMax(h.chars[ch].quad.lr[1], h.chars[ch].quad.ur[1])

\* lines 834-835 / 1124-1125: the last char of the run of spaces at ch
RECURSIVE SkipSpaces(_, _)
SkipSpaces(h, ch) ==
    LET n == h.chars[ch].next
    IN  IF n # NULL /\ h.chars[n].c = Space THEN SkipSpaces(h, n) ELSE ch

RECURSIVE WalkCharsBreakOnSpace(_, _, _, _, _, _)
WalkCharsBreakOnSpace(h, x, ch, left, right, rpos) ==
    IF ch = NULL
    THEN IF right = 1 THEN DivListPush(x, 0, rpos) ELSE x
    ELSE IF h.chars[ch].c = Space
    THEN IF right = 1
         THEN WalkCharsBreakOnSpace(h, DivListPush(x, 0, CharLpos(h, ch)),
                                    h.chars[SkipSpaces(h, ch)].next, 1, 0, rpos)
         ELSE WalkCharsBreakOnSpace(h, x, h.chars[ch].next, left, right, rpos)
    ELSE WalkCharsBreakOnSpace(h,
             IF left = 1 THEN DivListPush(x, 1, CharLpos(h, ch)) ELSE x,
             h.chars[ch].next, 0, 1, CharRpos(h, ch))

\* lines 808-858: the chars of one line, then the closing right event
RECURSIVE WalkChars(_, _, _, _, _, _)
WalkChars(h, x, ch, left, right, rpos) ==
    IF ch = NULL
    THEN IF right = 1 THEN DivListPush(x, 0, rpos) ELSE x
    ELSE
    LET n == h.chars[ch].next
    IN  IF h.chars[ch].c = Space
        THEN IF n = NULL
             THEN IF right = 1
                  THEN WalkChars(h, DivListPush(x, 0, CharLpos(h, ch)), n, 1, 0, rpos)
                  ELSE WalkChars(h, x, n, left, right, rpos)
             ELSE IF h.chars[n].c = Space
             THEN IF right = 1
                  THEN WalkChars(h, DivListPush(x, 0, CharLpos(h, ch)),
                                 h.chars[SkipSpaces(h, ch)].next, 1, 0, rpos)
                  ELSE WalkChars(h, x, n, left, right, rpos)
             ELSE WalkChars(h, x, n, left, right, rpos)
        ELSE WalkChars(h, IF left = 1 THEN DivListPush(x, 1, CharLpos(h, ch)) ELSE x,
                       n, 0, 1, CharRpos(h, ch))

RECURSIVE WalkLines(_, _, _)
WalkLines(h, e, line) ==
    IF line = NULL THEN e
    ELSE LET y1 == DivListPush(DivListPush(e.ys, 1, h.lines[line].bbox.y0),
                               0, h.lines[line].bbox.y1)
             x1 == WalkChars(h, e.xs, h.lines[line].first_char, 1, 0, Q(0))
         IN  WalkLines(h, [xs |-> x1, ys |-> y1], h.lines[line].next)

RECURSIVE WalkBlocks(_, _, _, _)
WalkBlocks(h, e, block, descend) ==
    IF block = NULL THEN e
    ELSE LET b == h.blocks[block]
             e1 == IF b.type = "struct"
                   THEN IF descend /\ b.down # NULL
                        THEN WalkBlocks(h, e, h.structs[b.down].first_block, descend)
                        ELSE e
                   ELSE IF b.type = "text" THEN WalkLines(h, e, b.first_line)
                   ELSE e
         IN  WalkBlocks(h, e1, b.next, descend)

(***************************************************************************)
(* sanitize_positions                                                      *)
(***************************************************************************)
\* lines 724-729: fold the following left entries into entry j
RECURSIVE FoldLeft(_, _, _)
FoldLeft(l, j, i) ==
    IF i < Len(l) /\ l[i + 1].left = 1
    THEN FoldLeft([l EXCEPT ![j].freq = l[j].freq + l[i + 1].freq,
                            ![i + 1].freq = 0], j, i + 1)
    ELSE [l |-> l, i |-> i]

RECURSIVE FoldRightLost(_, _)
FoldRightLost(l, i) ==
    IF i < Len(l) /\ l[i + 1].left = 0
    THEN FoldRightLost([l EXCEPT ![i].freq = 0], i + 1)
    ELSE [l |-> l, i |-> i]

\* lines 733-738: fold a run of right entries into its last entry
RECURSIVE FoldRight(_, _)
FoldRight(l, i) ==
    IF i < Len(l) /\ l[i + 1].left = 0
    THEN FoldRight([l EXCEPT ![i + 1].freq = l[i + 1].freq + l[i].freq,
                             ![i].freq = 0], i + 1)
    ELSE [l |-> l, i |-> i]

RECURSIVE CombineRuns(_, _)
CombineRuns(l, i) ==
    IF i > Len(l) THEN l
    ELSE LET f == IF l[i].left = 1 THEN FoldLeft(l, i, i) ELSE FoldRight(l, i)
         IN  CombineRuns(f.l, f.i + 1)

\* lines 757-766
RemoveZeroFreq(l) == SelectSeq(l, LAMBDA e : e.freq # 0)

SanitizePositions(l) == RemoveZeroFreq(CombineRuns(l, 1))

(***************************************************************************)
(* make_table_positions: returns [list, max_uncertainty, failed]; a NULL   *)
(* result is the empty list                                                *)
(***************************************************************************)
GridPosAtMax(pos, min, max, unc) ==
    [pos |-> max, min |-> min, max |-> max, uncertainty |-> unc,
     reinforcement |-> 0]

GridPos(pos, min, max, unc) ==
    [pos |-> pos, min |-> min, max |-> max, uncertainty |-> unc,
     reinforcement |-> 0]

\* lines 648-674: w is [wind, local_min, hi, out]
RECURSIVE CopyEdges(_, _, _)
CopyEdges(l, i, w) ==
    IF i > Len(l) THEN w
    ELSE IF l[i].left = 1
    THEN LET out == IF w.local_min = 1
                    THEN Append(w.out, GridPos(QMid(l[i - 1].pos, l[i].pos),
                                               l[i - 1].pos, l[i].pos, w.wind))
                    ELSE w.out
             wind == w.wind + l[i].freq
         IN  CopyEdges(l, i + 1, [wind |-> wind, local_min |-> w.local_min,
                                  hi |-> IF wind > w.hi THEN wind ELSE w.hi,
                                  out |-> out])
    ELSE CopyEdges(l, i + 1, [w EXCEPT !.wind = w.wind - l[i].freq,
                                       !.local_min = 1])

MakeTablePositions(l, min, max) ==
    IF Len(l) = 0 THEN [list |-> <<>>, max_uncertainty |-> 0, failed |-> FALSE]
    ELSE
    LET w == CopyEdges(l, 1, [wind |-> 0, local_min |-> 0, hi |-> 0,
                              out |-> <<GridPos(l[1].pos, min, l[1].pos, 0)>>])
        last == l[Len(l)].pos
    IN  [list |-> Append(w.out, GridPos(last, last, max, 0)),
         max_uncertainty |-> w.hi,
         failed |-> ~(l[1].left = 1) \/ ~(l[Len(l)].left = 0) \/ ~(w.wind = 0)]

(***************************************************************************)
(* The cell matrix.  cells is [w, h, cell], cell being the flat array of   *)
(* the allocation; C index k is element k + 1.  gd is [cells, xpos, ypos]. *)
(***************************************************************************)
ZeroCell == [h_line |-> 0, v_line |-> 0, h_crossed |-> 0, v_crossed |-> 0,
             full |-> 0]

NewCells(w, h) == [w |-> w, h |-> h, cell |-> [k \in 1..(w * h) |-> ZeroCell]]

GetCell(c, x, y) == c.cell[x + y * c.w + 1]

ReinforceHalfway(pos, r, x) == QMid(pos, x)

\* the running mean of line 943
Reinforce(pos, r, x) ==
    QNorm(pos[1] * r * x[2] + x[1] * pos[2], pos[2] * x[2] * (r + 1))

\* find_grid_pos_with_reinforcement: returns [list, i], i counted from 0
RECURSIVE FindGridPosWithReinforcement(_, _, _, _)
FindGridPosWithReinforcement(list, x, expand, i) ==
    IF i >= Len(list) THEN [list |-> list, i |-> -1]
    ELSE LET e == list[i + 1]
         IN  IF QGt(x, e.max)
             THEN FindGridPosWithReinforcement(list, x, expand, i + 1)
             ELSE IF QLt(x, e.min)
             THEN IF expand /\ i > 0
                  THEN LET mid == QMid(e.min, list[i].max)
                       IN  [list |-> list, i |-> IF QLt(x, mid) THEN i - 1 ELSE i]
                  ELSE [list |-> list, i |-> -1]
             ELSE [list |-> [list EXCEPT
                               ![i + 1].reinforcement = e.reinforcement + 1,
                               ![i + 1].pos = Reinforce(e.pos, e.reinforcement, x)],
                   i |-> i]

\* find_cell: the index counted from 0, or -1
RECURSIVE FindCellFrom(_, _, _)
FindCellFrom(list, x, i) ==
    IF i >= Len(list)
    THEN IF x = list[Len(list)].pos THEN Len(list) - 1 ELSE -1
    ELSE IF QLt(x, list[i + 1].pos) THEN i - 1
    ELSE FindCellFrom(list, x, i + 1)

FindCell(list, x) == FindCellFrom(list, x, 0)

\* lines 976-977 (horiz) and 994-995: the cells a rule runs along
MarkLine(c, start, end, at, horiz) ==
    [c EXCEPT !.cell =
        [k \in DOMAIN c.cell |->
           IF horiz /\ \E i \in start..(end - 1) : k = i + at * c.w + 1
           THEN [c.cell[k] EXCEPT !.h_line = @ + 1]
           ELSE IF ~horiz /\ \E i \in start..(end - 1) : k = at + i * c.w + 1
           THEN [c.cell[k] EXCEPT !.v_line = @ + 1]
           ELSE c.cell[k]]]

\* lines 967-968, 985-986: the second lookup sees what the first one did
FindEnd(s, b) ==
    [start |-> s.i, end |-> FindGridPosWithReinforcement(s.list, b, TRUE, 0)]

FindBoth(list, a, b) == FindEnd(FindGridPosWithReinforcement(list, a, TRUE, 0), b)

\* lines 973-979: se is the pair of lookups on x, t the lookup on y
AddHLineAt(gd, se, t) ==
    IF se.start < 0 \/ se.end.i < 0 \/ t.i < 0 \/ se.start >= se.end.i
    THEN [gd |-> [gd EXCEPT !.xpos.list = se.end.list, !.ypos.list = t.list],
          failed |-> 1]
    ELSE [gd |-> [gd EXCEPT !.xpos.list = se.end.list, !.ypos.list = t.list,
                            !.cells = MarkLine(@, se.start, se.end.i, t.i, TRUE)],
          failed |-> 0]

\* add_h_line: returns [gd, failed]
AddHLine(gd, x0, x1, y0, y1) ==
    AddHLineAt(gd, FindBoth(gd.xpos.list, x0, x1),
               FindGridPosWithReinforcement(gd.ypos.list, QMid(y0, y1), FALSE, 0))

\* lines 991-997
AddVLineAt(gd, se, t) ==
    IF se.start < 0 \/ se.end.i < 0 \/ t.i < 0 \/ se.start >= se.end.i
    THEN [gd |-> [gd EXCEPT !.ypos.list = se.end.list, !.xpos.list = t.list],
          failed |-> 1]
    ELSE [gd |-> [gd EXCEPT !.ypos.list = se.end.list, !.xpos.list = t.list,
                            !.cells = MarkLine(@, se.start, se.end.i, t.i, FALSE)],
          failed |-> 0]

\* add_v_line: returns [gd, failed]
AddVLine(gd, y0, y1, x0, x1) ==
    AddVLineAt(gd, FindBoth(gd.ypos.list, y0, y1),
               FindGridPosWithReinforcement(gd.xpos.list, QMid(x0, x1), FALSE, 0))

BitOr(a, b) == IF a = 1 \/ b = 1 THEN 1 ELSE 0
BitAnd(a, b) == IF a = 1 /\ b = 1 THEN 1 ELSE 0

\* lines 1032 and 1034: a further line, its result or-ed into a.failed
OrHLine(a, x0, x1, y) ==
    [AddHLine(a.gd, x0, x1, y, y) EXCEPT !.failed = BitOr(a.failed, @)]

OrVLine(a, y0, y1, x) ==
    [AddVLine(a.gd, y0, y1, x, x) EXCEPT !.failed = BitOr(a.failed, @)]

\* lines 1033-1035: hh is what the two horizontal edges returned
RectangleSides(hh, r) ==
    [OrVLine(AddVLine(hh.gd, r.y0, r.y1, r.x0, r.x0), r.y0, r.y1, r.x1)
     EXCEPT !.failed = BitAnd(@, hh.failed)]

\* lines 1013-1036: one vector block; returns [gd, failed]
RegisterVector(gd, r) ==
    IF QGt(QSub(r.x1, r.x0), QSub(r.y1, r.y0)) /\ QLt(QSub(r.y1, r.y0), Q(1))
    THEN AddHLine(gd, r.x0, r.x1, r.y0, r.y1)
    ELSE IF QLt(QSub(r.x1, r.x0), QSub(r.y1, r.y0)) /\ QLt(QSub(r.x1, r.x0), Q(1))
    THEN AddVLine(gd, r.y0, r.y1, r.x0, r.x1)
    ELSE RectangleSides(OrHLine(AddHLine(gd, r.x0, r.x1, r.y0, r.y0),
                                r.x0, r.x1, r.y1), r)

\* lines 1043-1047 and 1059-1063: may the next block n be merged into r?
Mergeable(h, r, n, horiz) ==
    /\ n # NULL
    /\ h.blocks[n].type = "vector"
    /\ horiz => /\ h.blocks[n].bbox.y0 = r.y0
                /\ h.blocks[n].bbox.y1 = r.y1
                /\ (QLt(h.blocks[n].bbox.x0, QAdd(r.x1, Q(1)))
                    \/ QGt(h.blocks[n].bbox.x1, QSub(r.x0, Q(1))))
    /\ ~horiz => /\ h.blocks[n].bbox.x0 = r.x0
                 /\ h.blocks[n].bbox.x1 = r.x1
                 /\ (QLt(h.blocks[n].bbox.y0, QAdd(r.y1, Q(1)))
                     \/ QGt(h.blocks[n].bbox.y1, QSub(r.y0, Q(1))))

\* the while loops of lines 1043-1051 and 1059-1067: returns [block, r]
RECURSIVE AbsorbVectors(_, _, _, _)
AbsorbVectors(h, block, r, horiz) ==
    IF Mergeable(h, r, h.blocks[block].next, horiz)
    THEN AbsorbVectors(h, h.blocks[block].next,
                       fz_union_rect(r, h.blocks[h.blocks[block].next].bbox), horiz)
    ELSE [block |-> block, r |-> r]

\* lines 1055 and 1071: the second attempt, with the merged rectangle m.r
Retry(gd, m, horiz) ==
    [gd |-> IF horiz THEN AddHLine(gd, m.r.x0, m.r.x1, m.r.y0, m.r.y1).gd
            ELSE AddVLine(gd, m.r.y0, m.r.y1, m.r.x0, m.r.x1).gd,
     block |-> m.block]

\* lines 1037-1073: first is what RegisterVector returned; returns [gd, block]
AfterVector(h, first, block, r) ==
    IF first.failed = 1
    THEN Retry(first.gd,
               AbsorbVectors(h, block, r, QGt(QSub(r.x1, r.x0), QSub(r.y1, r.y0))),
               QGt(QSub(r.x1, r.x0), QSub(r.y1, r.y0)))
    ELSE [gd |-> first.gd, block |-> block]

\* line 1003: block = block->next
StepBlock(h, s) == [s EXCEPT !.block = h.blocks[s.block].next]

\* walk_grid_lines; s is [gd, block]
RECURSIVE WalkGridLines(_, _)
WalkGridLines(h, s) ==
    IF s.block = NULL THEN s.gd
    ELSE IF h.blocks[s.block].type = "struct"
    THEN WalkGridLines(h,
             [gd |-> IF h.blocks[s.block].down # NULL
                     THEN WalkGridLines(h,
                              [gd |-> s.gd,
                               block |-> h.structs[h.blocks[s.block].down].first_block])
                     ELSE s.gd,
              block |-> h.blocks[s.block].next])
    ELSE IF h.blocks[s.block].type = "vector"
    THEN WalkGridLines(h,
             StepBlock(h, AfterVector(h, RegisterVector(s.gd, h.blocks[s.block].bbox),
                                      s.block, h.blocks[s.block].bbox)))
    ELSE WalkGridLines(h, StepBlock(h, s))

(***************************************************************************)
(* erase_grid_lines                                                        *)
(***************************************************************************)
\* lines 1135-1151: the glyph covers columns x0..x1 and rows y0..y1
EraseCells(gd, x0, x1, y0, y1) ==
    IF x0 < 0 \/ x1 < 0 \/ y0 < 0 \/ y1 < 0 THEN gd
    ELSE [gd EXCEPT !.cells.cell =
            [k \in DOMAIN gd.cells.cell |->
               LET x == (k - 1) % gd.cells.w
                   y == (k - 1) \div gd.cells.w
               IN  [gd.cells.cell[k] EXCEPT
                      !.v_crossed = IF x0 < x1 /\ y0 <= y /\ y <= y1
                                       /\ x0 + 1 <= x /\ x <= x1
                                    THEN @ + 1 ELSE @,
                      !.h_crossed = IF y0 < y1 /\ y0 + 1 <= y /\ y <= y1
                                       /\ x0 <= x /\ x <= x1
                                    THEN @ + 1 ELSE @,
                      !.full = IF y0 <= y /\ y <= y1 /\ x0 <= x /\ x <= x1
                               THEN @ + 1 ELSE @]]]

\* lines 1130-1134: one accepted char, r its rectangle
EraseChar(gd, r) ==
    EraseCells(gd, FindCell(gd.xpos.list, r.x0), FindCell(gd.xpos.list, r.x1),
               FindCell(gd.ypos.list, r.y0), FindCell(gd.ypos.list, r.y1))

SkipLeadingNone(h, ch) == ch

\* lines 1108-1109
RECURSIVE SkipLeadingSpaces(_, _)
SkipLeadingSpaces(h, ch) ==
    IF ch # NULL /\ h.chars[ch].c = Space
    THEN SkipLeadingSpaces(h, h.chars[ch].next)
    ELSE ch

\* lines 1111-1152
RECURSIVE EraseChars(_, _, _)
EraseChars(h, gd, ch) ==
    IF ch = NULL THEN gd
    ELSE LET n == h.chars[ch].next
         IN  IF h.chars[ch].c = Space /\ n = NULL THEN gd
             ELSE IF h.chars[ch].c = Space /\ h.chars[n].c = Space
             THEN EraseChars(h, gd, h.chars[SkipSpaces(h, ch)].next)
             ELSE EraseChars(h, EraseChar(gd, fz_rect_from_quad(h.chars[ch].quad)), n)

RECURSIVE EraseLines(_, _, _)
EraseLines(h, gd, line) ==
    IF line = NULL THEN gd
    ELSE EraseLines(h,
             EraseChars(h, gd, SkipLeadingSpaces(h, h.lines[line].first_char)),
             h.lines[line].next)

GridBounds(gd) ==
    Rect(gd.xpos.list[1].pos, gd.ypos.list[1].pos,
         gd.xpos.list[Len(gd.xpos.list)].pos, gd.ypos.list[Len(gd.ypos.list)].pos)

RECURSIVE EraseGridLines(_, _, _)
EraseGridLines(h, gd, block) ==
    IF block = NULL THEN gd
    ELSE
    LET b == h.blocks[block]
        bounds == GridBounds(gd)
    IN  IF b.type = "struct"
        THEN EraseGridLines(h,
                 IF b.down # NULL
                 THEN EraseGridLines(h, gd, h.structs[b.down].first_block)
                 ELSE gd,
                 b.next)
        ELSE IF b.type = "text"
        THEN IF QGe(b.bbox.x0, bounds.x1) \/ QGe(b.bbox.y0, bounds.y1)
                \/ QLe(b.bbox.x1, bounds.x0) \/ QLe(b.bbox.y1, bounds.y0)
             THEN EraseGridLines(h, gd, b.next)
             ELSE EraseGridLines(h, EraseLines(h, gd, b.first_line), b.next)
        ELSE EraseGridLines(h, gd, b.next)

(***************************************************************************)
(* merge_columns / merge_rows.  The code compacts the arrays in place with *)
(* memcpy although source and destination overlap; what such a call leaves *)
(* behind depends on the direction the library copies in, so every merge   *)
(* takes the direction dir ("fwd": ascending addresses, "bwd": descending) *)
(* as an argument.  Offsets are counted from 0 as in the code.             *)
(***************************************************************************)
RECURSIVE CopyFwd(_, _, _, _, _)
CopyFwd(a, dst, src, k, n) ==
    IF k >= n THEN a
    ELSE CopyFwd([a EXCEPT ![dst + k + 1] = a[src + k + 1]], dst, src, k + 1, n)

RECURSIVE CopyBwd(_, _, _, _)
CopyBwd(a, dst, src, k) ==
    IF k < 0 THEN a
    ELSE CopyBwd([a EXCEPT ![dst + k + 1] = a[src + k + 1]], dst, src, k - 1)

Memcpy(a, dst, src, n, dir) ==
    IF dir = "fwd" THEN CopyFwd(a, dst, src, 0, n) ELSE CopyBwd(a, dst, src, n - 1)

Flag(b) == IF b THEN 1 ELSE 0

\* lines 1558-1569: row y of merge_column
MergeColumnRow(cell, x, y, w, dir) ==
    LET d == x + y * (w - 1)
        s == x + y * w
        c1 == IF x > 0 THEN Memcpy(cell, d - x, s - x, x, dir) ELSE cell
        s0 == c1[s + 1]
        s1 == c1[s + 2]
        c2 == [c1 EXCEPT ![d + 1] =
                  [full      |-> Flag(s0.full # 0 \/ s1.full # 0),
                   h_crossed |-> Flag(s0.h_crossed # 0 \/ s1.h_crossed # 0),
                   h_line    |-> s0.h_line,
                   v_crossed |-> s0.v_crossed,
                   v_line    |-> s0.v_line]]
    IN  IF x < w - 2 THEN Memcpy(c2, d + 1, s + 2, w - 2 - x, dir) ELSE c2

RECURSIVE MergeColumnRows(_, _, _, _, _, _)
MergeColumnRows(cell, x, y, w, h, dir) ==
    IF y >= h THEN cell
    ELSE MergeColumnRows(MergeColumnRow(cell, x, y, w, dir), x, y + 1, w, h, dir)

\* lines 1573-1575 and 1638-1640: drop entry i + 1 of a position list
DropPosition(p, i, dir) ==
    LET n == Len(p.list)
        l == IF i < n - 2 THEN Memcpy(p.list, i + 1, i + 2, n - 2 - i, dir)
             ELSE p.list
    IN  [p EXCEPT !.list = SubSeq(l, 1, n - 1)]

\* merge_column
MergeColumn(gd, x, dir) ==
    [gd EXCEPT !.cells.cell = MergeColumnRows(gd.cells.cell, x, 0, gd.cells.w,
                                              gd.cells.h, dir),
               !.cells.w = gd.cells.w - 1,
               !.xpos = DropPosition(gd.xpos, x, dir)]

\* lines 1589-1604: does the pair (a, b) let the y loop continue?
ColumnPairMergeable(a, b) ==
    /\ b.v_line = 0
    /\ \/ a.full = 0
       \/ b.full = 0
       \/ ((a.h_line # 0) = (b.h_line # 0)) /\ b.v_crossed # 0

ColumnMergeable(gd, x) ==
    \A y \in 0..(gd.cells.h - 2) :
        ColumnPairMergeable(GetCell(gd.cells, x, y), GetCell(gd.cells, x + 1, y))

\* merge_columns, from column x down to column 0
RECURSIVE MergeColumnsFrom(_, _, _)
MergeColumnsFrom(gd, x, dir) ==
    IF x < 0 THEN gd
    ELSE MergeColumnsFrom(IF ColumnMergeable(gd, x) THEN MergeColumn(gd, x, dir)
                          ELSE gd,
                          x - 1, dir)

MergeColumns(gd, dir) == MergeColumnsFrom(gd, gd.cells.w - 3, dir)

\* lines 1626-1633 of merge_row
RECURSIVE MergeRowCells(_, _, _, _)
MergeRowCells(cell, d, x, w) ==
    IF x >= w - 1 THEN cell
    ELSE LET c1 == IF cell[d + 1].full = 0
                   THEN [cell EXCEPT ![d + 1].full = cell[d + w + 1].full]
                   ELSE cell
             c2 == IF c1[d + 1].h_crossed = 0
                   THEN [c1 EXCEPT ![d + 1].h_crossed = c1[d + w + 1].h_crossed]
                   ELSE c1
         IN  MergeRowCells(c2, d + 1, x + 1, w)

\* merge_row
MergeRow(gd, y, dir) ==
    LET w == gd.cells.w
        c1 == MergeRowCells(gd.cells.cell, y * w, 0, w)
        d == y * w + (w - 1)
        c2 == IF y < gd.cells.h - 2
              THEN Memcpy(c1, d, d + w, (gd.cells.h - 2 - y) * w, dir)
              ELSE c1
    IN  [gd EXCEPT !.cells.cell = c2,
                   !.cells.h = gd.cells.h - 1,
                   !.ypos = DropPosition(gd.ypos, y, dir)]

\* lines 1654-1669
RowPairMergeable(a, b) ==
    /\ b.h_line = 0
    /\ \/ a.full = 0
       \/ b.full = 0
       \/ ((a.v_line # 0) = (b.v_line # 0)) /\ b.h_crossed # 0

RowMergeable(gd, y) ==
    \A x \in 0..(gd.cells.w - 2) :
        RowPairMergeable(GetCell(gd.cells, x, y), GetCell(gd.cells, x, y + 1))

RECURSIVE MergeRowsFrom(_, _, _)
MergeRowsFrom(gd, y, dir) ==
    IF y < 0 THEN gd
    ELSE MergeRowsFrom(IF RowMergeable(gd, y) THEN MergeRow(gd, y, dir) ELSE gd,
                       y - 1, dir)

MergeRows(gd, dir) == MergeRowsFrom(gd, gd.cells.h - 3, dir)

(***************************************************************************)
(* transcribe_table: the span guesses of lines 1479-1522                   *)
(***************************************************************************)
RECURSIVE CellWidthThroughLines(_, _, _, _)
CellWidthThroughLines(gd, x2, y, cellw) ==
    IF x2 >= Len(gd.xpos.list) - 1 THEN cellw
    ELSE IF gd.xpos.list[x2 + 1].uncertainty = 0
            \/ GetCell(gd.cells, x2, y).v_crossed = 0
    THEN cellw
    ELSE CellWidthThroughLines(gd, x2 + 1, y, cellw + 1)

\* lines 1480-1490
RECURSIVE CellWidth(_, _, _, _)
CellWidth(gd, x2, y, cellw) ==
    IF x2 >= Len(gd.xpos.list) - 1 THEN cellw
    ELSE LET cell == GetCell(gd.cells, x2, y)
         IN  IF cell.v_line # 0 \/ gd.xpos.list[x2 + 1].uncertainty = 0
                \/ cell.v_crossed = 0
             THEN cellw
             ELSE CellWidth(gd, x2 + 1, y, cellw + 1)

\* lines 1504-1517: returns [x2, h_crossed]
RECURSIVE SpanRow(_, _, _, _, _)
SpanRow(gd, x2, y2, lim, hc) ==
    IF x2 >= lim THEN [x2 |-> x2, h_crossed |-> hc]
    ELSE LET cell == GetCell(gd.cells, x2, y2)
         IN  IF cell.h_line # 0 \/ cell.v_line # 0
                \/ gd.xpos.list[x2 + 1].uncertainty = 0 \/ cell.v_crossed = 0
             THEN [x2 |-> x2, h_crossed |-> hc]
             ELSE SpanRow(gd, x2 + 1, y2, lim, hc \/ cell.h_crossed # 0)

\* lines 1492-1522
RECURSIVE CellHeight(_, _, _, _, _)
CellHeight(gd, x, y2, cellw, cellh) ==
    IF y2 >= Len(gd.ypos.list) - 1 THEN cellh
    ELSE IF gd.ypos.list[y2 + 1].uncertainty = 0 THEN cellh
    ELSE LET cell == GetCell(gd.cells, x, y2)
         IN  IF cell.h_line # 0 THEN cellh
             ELSE LET s == SpanRow(gd, x + 1, y2, x + cellw, cell.h_crossed # 0)
                  IN  IF s.x2 = x + cellw /\ s.h_crossed
                      THEN CellHeight(gd, x, y2 + 1, cellw, cellh + 1)
                      ELSE cellh

\* line 1735-1743
RECURSIVE BboxOfBlocks(_, _, _)
BboxOfBlocks(h, block, r) ==
    IF block = NULL THEN r
    ELSE BboxOfBlocks(h, h.blocks[block].next, fz_union_rect(r, h.blocks[block].bbox))

(***************************************************************************)
(* Pages handed to fz_table_hunt.  A page is built the way the structured  *)
(* text device leaves it: every block appended at the tail of its list, a  *)
(* line's bbox the union of its glyph quads, a text block's bbox the union *)
(* of its lines.  A glyph is <<c, x0, y0, x1, y1>>.                        *)
(***************************************************************************)
EmptyHeap ==
    [page |-> [first_block |-> NULL, last_block |-> NULL], blocks |-> <<>>,
     structs |-> <<>>, lines |-> <<>>, chars |-> <<>>, failed |-> FALSE]

QuadOf(g) ==
    [ul |-> <<Q(g[2]), Q(g[3])>>, ur |-> <<Q(g[4]), Q(g[3])>>,
     ll |-> <<Q(g[2]), Q(g[5])>>, lr |-> <<Q(g[4]), Q(g[5])>>]

AppendBlock(h, rec, parent) ==
    LET b == Len(h.blocks) + 1
        last == LastBlock(h, parent)
        h1 == [h EXCEPT !.blocks = Append(h.blocks, [rec EXCEPT !.prev = last])]
        h2 == IF last # NULL THEN [h1 EXCEPT !.blocks[last].next = b] ELSE h1
    IN  IF parent # NULL
        THEN [h2 EXCEPT !.structs[parent].last_block = b,
                        !.structs[parent].first_block = IF @ = NULL THEN b ELSE @]
        ELSE [h2 EXCEPT !.page.last_block = b,
                        !.page.first_block = IF @ = NULL THEN b ELSE @]

RECURSIVE AddGlyphs(_, _, _)
AddGlyphs(h, line, gs) ==
    IF gs = <<>> THEN h
    ELSE LET ch == Len(h.chars) + 1
             g == Head(gs)
             last == h.lines[line].last_char
             h1 == [h EXCEPT !.chars = Append(h.chars,
                        [c |-> g[1], quad |-> QuadOf(g), next |-> NULL])]
             h2 == IF last = NULL THEN [h1 EXCEPT !.lines[line].first_char = ch]
                   ELSE [h1 EXCEPT !.chars[last].next = ch]
         IN  AddGlyphs([h2 EXCEPT !.lines[line].last_char = ch,
                                  !.lines[line].bbox =
                                      fz_union_rect(@, fz_rect_from_quad(QuadOf(g)))],
                       line, Tail(gs))

RECURSIVE AddLines(_, _, _)
AddLines(h, block, ls) ==
    IF ls = <<>> THEN h
    ELSE LET line == Len(h.lines) + 1
             last == h.blocks[block].last_line
             h1 == [h EXCEPT !.lines = Append(h.lines,
                                 [ZeroLine EXCEPT !.bbox = fz_empty_rect,
                                                  !.prev = last])]
             h2 == AddGlyphs(h1, line, Head(ls))
         IN  AddLines([h2 EXCEPT
                          !.lines = IF last # NULL THEN [@ EXCEPT ![last].next = line]
                                    ELSE @,
                          !.blocks[block].first_line = IF @ = NULL THEN line ELSE @,
                          !.blocks[block].last_line = line,
                          !.blocks[block].bbox =
                              fz_union_rect(@, h2.lines[line].bbox)],
                      block, Tail(ls))

AddItem(h, parent, it) ==
    IF it.k = "text"
    THEN AddLines(AppendBlock(h, [ZeroBlock EXCEPT !.bbox = fz_empty_rect], parent),
                  Len(h.blocks) + 1, it.lines)
    ELSE IF it.k = "vector"
    THEN AppendBlock(h, [ZeroBlock EXCEPT !.type = "vector",
                            !.bbox = Rect(Q(it.r[1]), Q(it.r[2]), Q(it.r[3]), Q(it.r[4]))],
                     parent)
    ELSE IF ~it.node
    THEN AppendBlock(h, [ZeroBlock EXCEPT !.type = "struct", !.index = it.index,
                            !.bbox = Rect(Q(it.r[1]), Q(it.r[2]), Q(it.r[3]), Q(it.r[4]))],
                     parent)
    ELSE [AppendBlock(h, [ZeroBlock EXCEPT !.type = "struct", !.index = it.index,
                            !.down = Len(h.structs) + 1,
                            !.bbox = Rect(Q(it.r[1]), Q(it.r[2]), Q(it.r[3]), Q(it.r[4]))],
                      parent)
          EXCEPT !.structs = Append(@, [up |-> Len(h.blocks) + 1, parent |-> parent,
                                        first_block |-> NULL, last_block |-> NULL,
                                        standard |-> "Div"])]

RECURSIVE AddItems(_, _, _)
AddItems(h, parent, items) ==
    IF items = <<>> THEN h
    ELSE AddItems(AddItem(h, parent, Head(items)), parent, Tail(items))

\* the page holding the items, or holding one structural block that holds them
BuildPage(items, wrap) ==
    IF ~wrap THEN AddItems(EmptyHeap, NULL, items)
    ELSE LET h1 == AppendBlock(EmptyHeap,
                       [ZeroBlock EXCEPT !.type = "struct", !.down = 1], NULL)
             h2 == [h1 EXCEPT !.structs = <<[up |-> 1, parent |-> NULL,
                        first_block |-> NULL, last_block |-> NULL,
                        standard |-> "Div"]>>]
             h3 == AddItems(h2, 1, items)
         IN  [h3 EXCEPT !.blocks[1].bbox =
                            BboxOfBlocks(h3, h3.structs[1].first_block, fz_empty_rect)]

Text(ls) == [k |-> "text", lines |-> ls]
Vector(x0, y0, x1, y1) == [k |-> "vector", r |-> <<x0, y0, x1, y1>>]
EmptyStruct(index, x0, y0, x1, y1) ==
    [k |-> "struct", index |-> index, r |-> <<x0, y0, x1, y1>>, node |-> FALSE]
\* a structural block with a Div node that has no children
Div(index, x0, y0, x1, y1) ==
    [k |-> "struct", index |-> index, r |-> <<x0, y0, x1, y1>>, node |-> TRUE]
G(x0, y0, x1, y1) == <<97, x0, y0, x1, y1>>
Sp(x0, y0, x1, y1) == <<Space, x0, y0, x1, y1>>

\* one-glyph blocks at the corners of a 2 x 2 arrangement
BlkA == Text(<< <<G(0, 0, 1, 1)>> >>)
BlkB == Text(<< <<G(3, 0, 4, 1)>> >>)
BlkC == Text(<< <<G(0, 3, 1, 4)>> >>)
BlkD == Text(<< <<G(3, 3, 4, 4)>> >>)

Pages == <<
    \* 1: four blocks, one per cell
    <<BlkA, BlkB, BlkC, BlkD>>,
    \* 2: two one-line blocks "a  b", each reaching over both columns
    <<Text(<< <<G(0, 0, 1, 1), Sp(1, 0, 2, 1), Sp(2, 0, 3, 1), G(3, 0, 4, 1)>> >>),
      Text(<< <<G(0, 3, 1, 4), Sp(1, 3, 2, 4), Sp(2, 3, 3, 4), G(3, 3, 4, 4)>> >>)>>,
    \* 3: two two-line blocks, each reaching over both rows
    <<Text(<< <<G(0, 0, 1, 1)>>, <<G(0, 3, 1, 4)>> >>),
      Text(<< <<G(3, 0, 4, 1)>>, <<G(3, 3, 4, 4)>> >>)>>,
    \* 4: two blocks on the diagonal
    <<BlkA, BlkD>>,
    \* 5: one block; 6: no block; 7: two blocks with the same x extent
    <<BlkA>>,
    <<>>,
    <<BlkA, BlkC>>,
    \* 8: a glyph as tall as both rows
    <<Text(<< <<G(0, 0, 1, 4)>> >>), BlkB, BlkD>>,
    \* 9: three blocks whose lines interleave
    <<Text(<< <<G(3, 1, 4, 3)>>, <<G(0, 1, 2, 2)>> >>),
      Text(<< <<G(3, 2, 4, 4)>> >>),
      Text(<< <<G(1, 0, 3, 1)>>, <<G(1, 3, 3, 4)>> >>)>>,
    \* 10: ruled 2 x 2 table: a horizontal and a vertical rule
    <<BlkA, BlkB, BlkC, BlkD, Vector(0, 2, 4, 2), Vector(1, 0, 1, 4)>>,
    \* 11: a structural block without children follows the table's content
    <<BlkA, BlkB, BlkD, EmptyStruct(0, 8, 8, 9, 9)>>,
    \* 12: the last line has no height
    <<BlkA, Text(<< <<G(3, 1, 4, 1)>> >>)>>,
    \* 13: the last glyph has no width, and a rule runs through it
    <<BlkA, Text(<< <<G(3, 3, 3, 4)>> >>), Vector(3, 0, 3, 4)>>,
    \* 14: three columns, the first two joined by a wide glyph in the second row
    <<BlkA, BlkB, Text(<< <<G(6, 0, 7, 1)>> >>),
      Text(<< <<G(0, 3, 4, 4)>> >>), Text(<< <<G(6, 3, 7, 4)>> >>)>>,
    \* 15: two overlapping lines and a distant third in one block
    <<Text(<< <<G(0, 0, 1, 2)>>, <<G(0, 1, 1, 3)>>, <<G(0, 5, 1, 6)>> >>),
      Text(<< <<G(3, 0, 4, 3)>> >>)>>,
    \* 16: a framed table: one rectangle around everything
    <<Vector(0, 0, 4, 4), BlkA, BlkB, BlkC, BlkD>>,
    \* 17: three columns of which the first two hold nothing side by side
    <<BlkA, Text(<< <<G(6, 0, 7, 1)>> >>), BlkD, Text(<< <<G(6, 3, 7, 4)>> >>)>>,
    \* 18: four two-glyph words, 40 wide and 20 high, 10 apart
    <<Text(<< <<G(10, 10, 30, 30), G(30, 10, 50, 30)>> >>),
      Text(<< <<G(60, 10, 80, 30), G(80, 10, 100, 30)>> >>),
      Text(<< <<G(10, 40, 30, 60), G(30, 40, 50, 60)>> >>),
      Text(<< <<G(60, 40, 80, 60), G(80, 40, 100, 60)>> >>)>>,
    \* 19: a glyph as tall as the second column, then one as wide as the second row
    <<BlkA, Text(<< <<G(3, 0, 4, 4)>> >>), Text(<< <<G(0, 3, 4, 4)>> >>)>>,
    \* 20: two glyphs down to the last divider, joined by a wide shorter one
    <<BlkA, Text(<< <<G(0, 3, 1, 6)>> >>), Text(<< <<G(3, 3, 4, 6)>> >>),
      Text(<< <<G(0, 3, 4, 4)>> >>)>>,
    \* 21: three columns, a rule drawn above the last cell of the third only
    <<BlkA, BlkB, BlkC, Text(<< <<G(6, 3, 7, 4)>> >>), Vector(5, 2, 7, 2)>>,
    \* 22: one block whose four lines are the four cells of page 1
    <<Text(<< <<G(0, 0, 1, 1)>>, <<G(3, 0, 4, 1)>>, <<G(0, 3, 1, 4)>>,
              <<G(3, 3, 4, 4)>> >>)>>,
    \* 23: a glyph of height zero on the bottom edge of the first row, and a
    \* second row below it
    <<BlkA, Text(<< <<G(3, 1, 4, 1)>> >>), BlkC>>,
    \* 24: a Div without children where the fourth cell of page 1 would be
    <<BlkA, BlkB, BlkC, Div(0, 3, 3, 4, 4)>>
>>

\* the binary digits of n after its leading 1
RECURSIVE Bits(_)
Bits(n) == IF n <= 1 THEN <<>> ELSE Append(Bits(n \div 2), n % 2)

MaxChars == 4

\* a line at y 3..4 of unit-wide characters from x = 0 on; digit 1 is a space
LineOf(n) ==
    [i \in 1..Len(Bits(n)) |->
        <<IF Bits(n)[i] = 1 THEN Space ELSE 97, i - 1, 3, i, 4>>]

\* every line of 1..MaxChars characters below two one-glyph blocks
LinePages ==
    [k \in 1..(2 ^ (MaxChars + 1) - 2) |->
        <<BlkA, Text(<< <<G(6, 0, 7, 1)>> >>), Text(<<LineOf(k + 1)>>)>>]

\* rules and rectangles over the dividers 0, 4, 8 of four 2 x 2 glyphs:
\* a rule along the middle divider, a dash inside its window, a dash near the
\* last divider, a rule between two windows, then the same upright, and two
\* rectangles
Rules == <<
    <<0, 4, 8, 4>>, <<3, 4, 4, 4>>, <<7, 4, 8, 4>>, <<0, 1, 8, 1>>,
    <<4, 0, 4, 8>>, <<4, 3, 4, 5>>, <<4, 7, 4, 8>>,
    <<1, 1, 7, 7>>, <<0, 0, 7, 7>> >>

MaxRules == 2

\* the k-th sequence over 1..Len(Rules), shorter sequences first
RECURSIVE Picks(_)
Picks(k) ==
    IF k = 0 THEN <<>>
    ELSE Append(Picks((k - 1) \div Len(Rules)), ((k - 1) % Len(Rules)) + 1)

\* four one-glyph blocks followed by 1..MaxRules vector blocks
RulePages ==
    [k \in 1..((Len(Rules) ^ (MaxRules + 1) - Len(Rules)) \div (Len(Rules) - 1)) |->
        <<Text(<< <<G(0, 0, 2, 2)>> >>), Text(<< <<G(6, 0, 8, 2)>> >>),
          Text(<< <<G(0, 6, 2, 8)>> >>), Text(<< <<G(6, 6, 8, 8)>> >>)>>
        \o [i \in 1..Len(Picks(k)) |->
               Vector(Rules[Picks(k)[i]][1], Rules[Picks(k)[i]][2],
                      Rules[Picks(k)[i]][3], Rules[Picks(k)[i]][4])]]

Input == Pages \o LinePages \o RulePages

(***************************************************************************)
(* fz_table_hunt / do_table_hunt as a state machine.  stack holds one      *)
(* frame per active do_table_hunt: its parent, the cursor of the loop of   *)
(* lines 1763-1775, count, and the level's block list as it was on entry.  *)
(***************************************************************************)
MaxRuns == 2

EmptyPositions == [list |-> <<>>, max_uncertainty |-> 0]
NoCells == [w |-> 0, h |-> 0, cell |-> <<>>]

Snapshot(h, parent) ==
    LET ids == FwdList(h, parent)
    IN  [first |-> FirstBlock(h, parent), last |-> LastBlock(h, parent),
         ids |-> ids, recs |-> [i \in 1..Len(ids) |-> h.blocks[ids[i]]]]

Frame(h, parent) ==
    [parent |-> parent, block |-> FirstBlock(h, parent), count |-> 0,
     snap |-> Snapshot(h, parent)]

Top == stack[Len(stack)]
Gd == [cells |-> cells, xpos |-> xps, ypos |-> yps]

RECURSIVE ScanToPastStructs(_, _, _)
ScanToPastStructs(h, block, count) ==
    IF block = NULL THEN [block |-> NULL, count |-> count]
    ELSE ScanToPastStructs(h, h.blocks[block].next,
             IF h.blocks[block].type = "text"
                \/ (h.blocks[block].type = "struct" /\ h.blocks[block].down # NULL)
             THEN count + 1 ELSE count)

\* lines 1763-1775 up to the next recursive call: [block, count]
RECURSIVE ScanTo(_, _, _)
ScanTo(h, block, count) ==
    IF block = NULL THEN [block |-> NULL, count |-> count]
    ELSE IF h.blocks[block].type = "struct" /\ h.blocks[block].down # NULL
    THEN [block |-> block, count |-> count]
    ELSE ScanTo(h, h.blocks[block].next,
                IF h.blocks[block].type = "text" THEN count + 1 ELSE count)

DescendAlways == TRUE
\* line 1791: walk_blocks is called with descend == 0
Descend == FALSE

\* line 1797
EnoughEvents(x, y) == Len(x) > 2 /\ Len(y) > 2

TooFewDividersAnd(gd) == Len(gd.xpos.list) < 3 /\ Len(gd.ypos.list) < 3
TooFewDividersTwo(gd) == Len(gd.xpos.list) < 2 \/ Len(gd.ypos.list) < 2
\* line 1716
TooFewDividers(gd) == Len(gd.xpos.list) < 3 \/ Len(gd.ypos.list) < 3

SetHeap(h) ==
    /\ page' = h.page
    /\ blocks' = h.blocks
    /\ structs' = h.structs
    /\ lines' = h.lines
    /\ chars' = h.chars

heap == <<page, blocks, structs, lines, chars>>
grid == <<xps, yps, cells>>
emit == <<sent, tx, ty, table, tr>>

Init ==
    \E p \in 1..Len(Input), wrap \in BOOLEAN :
      \E h \in {BuildPage(Input[p], wrap)} :
        /\ page = h.page
        /\ blocks = h.blocks
        /\ structs = h.structs
        /\ lines = h.lines
        /\ chars = h.chars
        /\ pc = "idle"
        /\ stack = <<>>
        /\ run = 0
        /\ xs = <<>> /\ ys = <<>>
        /\ xps = EmptyPositions /\ yps = EmptyPositions
        /\ cells = NoCells
        /\ sent = <<>>
        /\ tx = 0 /\ ty = 0
        /\ table = NULL /\ tr = NULL
        /\ structs1 = 0

\* fz_table_hunt is entered (again)
HuntEnter ==
    /\ pc \in {"idle", "done"}
    /\ run < MaxRuns
    /\ run' = run + 1
    /\ structs1' = IF run = 1 THEN Len(structs) ELSE structs1
    /\ stack' = <<Frame(Heap, NULL)>>
    /\ pc' = "scan"
    /\ UNCHANGED <<heap, xs, ys, grid, emit>>

\* line 1769: the loop reaches a structural block with children and recurses
HuntDescend ==
    /\ pc = "scan"
    /\ LET s == ScanTo(Heap, Top.block, Top.count)
       IN  /\ s.block # NULL
           /\ stack' = Append(
                  [stack EXCEPT ![Len(stack)].block = blocks[s.block].next,
                                ![Len(stack)].count = s.count + 1],
                  Frame(Heap, blocks[s.block].down))
    /\ UNCHANGED <<heap, pc, run, structs1, xs, ys, grid, emit>>

\* lines 1758-1779: the loop ends, count is known
HuntScanEnd ==
    /\ pc = "scan"
    /\ LET s == ScanTo(Heap, Top.block, Top.count)
       IN  /\ s.block = NULL
           /\ stack' = [stack EXCEPT ![Len(stack)].block = NULL,
                                     ![Len(stack)].count = s.count]
           /\ pc' = IF s.count <= 1 THEN "leveldone" ELSE "collect"
    /\ UNCHANGED <<heap, run, structs1, xs, ys, grid, emit>>

\* lines 1791-1797
HuntCollect ==
    /\ pc = "collect"
    /\ LET e == WalkBlocks(Heap, [xs |-> <<>>, ys |-> <<>>],
                           FirstBlock(Heap, Top.parent), Descend)
       IN  /\ xs' = SanitizePositions(e.xs)
           /\ ys' = SanitizePositions(e.ys)
    /\ pc' = IF EnoughEvents(xs', ys') THEN "positions" ELSE "leveldone"
    /\ UNCHANGED <<heap, stack, run, structs1, grid, emit>>

\* lines 1800-1802: returns [x, y], what make_table_positions returned
LevelPositions(rect) ==
    [x |-> MakeTablePositions(xs, rect.x0, rect.x1),
     y |-> MakeTablePositions(ys, rect.y0, rect.y1)]

Positions ==
    LevelPositions(BboxOfBlocks(Heap, FirstBlock(Heap, Top.parent), fz_empty_rect))

\* lines 621, 632, 675: an assert of make_table_positions stops the program
HuntAssertFails ==
    /\ pc = "positions"
    /\ \E p \in {Positions} : p.x.failed \/ p.y.failed
    /\ pc' = "aborted"
    /\ UNCHANGED <<heap, stack, run, structs1, xs, ys, grid, emit>>

\* lines 1800-1802 (past the asserts when they are compiled out)
HuntMakePositions ==
    /\ pc = "positions"
    /\ \E p \in {Positions} :
           /\ xps' = [list |-> p.x.list, max_uncertainty |-> p.x.max_uncertainty]
           /\ yps' = [list |-> p.y.list, max_uncertainty |-> p.y.max_uncertainty]
    /\ pc' = "grid"
    /\ UNCHANGED <<heap, stack, run, structs1, xs, ys, cells, emit>>

SetGd(gd) ==
    /\ cells' = gd.cells
    /\ xps' = gd.xpos
    /\ yps' = gd.ypos

\* lines 1699-1703
HuntWalkGridLines ==
    /\ pc = "grid"
    /\ SetGd(WalkGridLines(Heap,
                 [gd |-> [cells |-> NewCells(Len(xps.list), Len(yps.list)),
                          xpos |-> xps, ypos |-> yps],
                  block |-> FirstBlock(Heap, Top.parent)]))
    /\ pc' = "erase"
    /\ UNCHANGED <<heap, stack, run, structs1, xs, ys, emit>>

\* line 1706
HuntEraseGridLines ==
    /\ pc = "erase"
    /\ SetGd(EraseGridLines(Heap, Gd, FirstBlock(Heap, Top.parent)))
    /\ pc' = "mergecolumns"
    /\ UNCHANGED <<heap, stack, run, structs1, xs, ys, emit>>

\* line 1712
HuntMergeColumns ==
    /\ pc = "mergecolumns"
    /\ \E dir \in {"fwd", "bwd"} : SetGd(MergeColumns(Gd, dir))
    /\ pc' = "mergerows"
    /\ UNCHANGED <<heap, stack, run, structs1, xs, ys, emit>>

\* lines 1713-1717
HuntMergeRows ==
    /\ pc = "mergerows"
    /\ \E dir \in {"fwd", "bwd"} : SetGd(MergeRows(Gd, dir))
    /\ pc' = IF TooFewDividers([cells |-> cells', xpos |-> xps', ypos |-> yps'])
             THEN "leveldone" ELSE "transcribe"
    /\ UNCHANGED <<heap, stack, run, structs1, xs, ys, emit>>

(***************************************************************************)
(* transcribe_table, one step per Table, TR and TD                         *)
(***************************************************************************)
GridW == Len(xps.list)
GridH == Len(yps.list)
Sent(x, y) == sent[x + y * GridW + 1]

\* lines 1458-1463: every position of row y has been sent
RowSent(y) == \A x \in 0..(GridW - 2) : Sent(x, y) = 1

\* lines 1525-1528
CellRect(gd, x, y, cellw, cellh) ==
    Rect(gd.xpos.list[x + 1].pos, gd.ypos.list[y + 1].pos,
         gd.xpos.list[x + cellw + 1].pos, gd.ypos.list[y + cellh + 1].pos)

\* lines 1540-1543
RowRect(gd, y) ==
    Rect(gd.xpos.list[1].pos, gd.ypos.list[y + 1].pos,
         gd.xpos.list[Len(gd.xpos.list)].pos, gd.ypos.list[y + 2].pos)

\* lines 1531-1532: h holds the new TD as its last struct
FillCell(h, src, r) ==
    MoveContainedContent([h EXCEPT !.blocks[h.structs[Len(h.structs)].up].bbox = r],
                         Len(h.structs), src, r)

\* an assert of add_struct_block_before may stop the program
AfterStruct(h, next) == IF h.failed THEN {"aborted", next} ELSE {next}

\* lines 1438-1452
TranscribeTable ==
    /\ pc = "transcribe"
    /\ sent' = [k \in 1..(GridW * GridH) |-> 0]
    /\ \E h1 \in {AddStructBlockBefore(Heap,
                        FindTableInsertionPoint(Heap, GridBounds(Gd),
                                                FirstBlock(Heap, Top.parent)),
                        Top.parent, "Table")} :
           /\ SetHeap(h1)
           /\ table' = Len(h1.structs)
           /\ pc' \in AfterStruct(h1, "row")
    /\ ty' = 0
    /\ UNCHANGED <<stack, run, structs1, xs, ys, grid, tx, tr>>

\* line 1464: a row with nothing left to send
TranscribeSkipRow ==
    /\ pc = "row"
    /\ ty < GridH - 1
    /\ RowSent(ty)
    /\ ty' = ty + 1
    /\ UNCHANGED <<heap, pc, stack, run, structs1, xs, ys, grid, sent, tx, table, tr>>

\* line 1467
TranscribeRow ==
    /\ pc = "row"
    /\ ty < GridH - 1
    /\ ~RowSent(ty)
    /\ \E h1 \in {AddStructBlockBefore(Heap, NULL, table, "TR")} :
           /\ SetHeap(h1)
           /\ tr' = Len(h1.structs)
           /\ pc' \in AfterStruct(h1, "cell")
    /\ tx' = 0
    /\ UNCHANGED <<stack, run, structs1, xs, ys, grid, sent, ty, table>>

\* line 1477: a position an earlier cell spans
TranscribeSkipCell ==
    /\ pc = "cell"
    /\ tx < GridW - 1
    /\ Sent(tx, ty) = 1
    /\ tx' = tx + 1
    /\ UNCHANGED <<heap, pc, stack, run, structs1, xs, ys, grid, sent, ty, table, tr>>

\* lines 1479-1538
TranscribeCell ==
    /\ pc = "cell"
    /\ tx < GridW - 1
    /\ Sent(tx, ty) = 0
    /\ \E cellw \in {CellWidth(Gd, tx + 1, ty, 1)} :
         \E cellh \in {CellHeight(Gd, tx, ty + 1, cellw, 1)} :
           \E h3 \in {FillCell(AddStructBlockBefore(Heap, NULL, tr, "TD"),
                               Top.parent, CellRect(Gd, tx, ty, cellw, cellh))} :
             /\ SetHeap(h3)
             /\ pc' \in AfterStruct(h3, "cell")
             /\ sent' = [k \in DOMAIN sent |->
                           IF \E x2 \in tx..(tx + cellw - 1),
                                 y2 \in ty..(ty + cellh - 1) : k = x2 + y2 * GridW + 1
                           THEN 1 ELSE sent[k]]
    /\ tx' = tx + 1
    /\ UNCHANGED <<stack, run, structs1, xs, ys, grid, ty, table, tr>>

\* lines 1540-1545
TranscribeRowEnd ==
    /\ pc = "cell"
    /\ tx >= GridW - 1
    /\ LET trb == structs[tr].up
           tb == structs[table].up
           r == RowRect(Gd, ty)
       IN  blocks' = [blocks EXCEPT ![trb].bbox = r,
                                    ![tb].bbox = fz_union_rect(blocks[tb].bbox, r)]
    /\ ty' = ty + 1
    /\ pc' = "row"
    /\ UNCHANGED <<page, structs, lines, chars, stack, run, structs1, xs, ys,
                   grid, sent, tx, table, tr>>

\* lines 1547 and 1805-1817: the Table is complete, transcribe_table frees
\* sent_tab, and the Table receives its grid block
HuntAddGridBlock ==
    /\ pc = "row"
    /\ ty >= GridH - 1
    /\ sent' = <<>>
    /\ \E h1 \in {AddGridBlock(Heap, table)} :
           SetHeap([h1 EXCEPT !.blocks[Len(h1.blocks)].xs = xps,
                              !.blocks[Len(h1.blocks)].ys = yps,
                              !.blocks[Len(h1.blocks)].bbox = GridBounds(Gd)])
    /\ pc' = "leveldone"
    /\ UNCHANGED <<stack, run, structs1, xs, ys, grid, tx, ty, table, tr>>

\* lines 1846-1855: the lists are freed and do_table_hunt returns
HuntReturn ==
    /\ pc = "leveldone"
    /\ stack' = SubSeq(stack, 1, Len(stack) - 1)
    /\ pc' = IF Len(stack) = 1 THEN "done" ELSE "scan"
    /\ xs' = <<>> /\ ys' = <<>>
    /\ xps' = EmptyPositions /\ yps' = EmptyPositions
    /\ cells' = NoCells
    /\ sent' = <<>>
    /\ tx' = 0 /\ ty' = 0
    /\ table' = NULL /\ tr' = NULL
    /\ UNCHANGED <<heap, run, structs1>>

\* lines 1722-1727 and 1846-1854: an allocation of the step that comes next
\* fails (fz_calloc, fz_realloc, fz_pool_alloc); the exception unwinds through
\* the fz_always blocks of check_for_grid_lines and of every do_table_hunt
\* on the stack.  transcribe_table (lines 1438-1547) has no fz_always.
HuntAllocFails ==
    /\ \/ pc \in {"positions", "grid", "transcribe"}
       \/ /\ pc = "collect"
          /\ WalkBlocks(Heap, [xs |-> <<>>, ys |-> <<>>],
                        FirstBlock(Heap, Top.parent), Descend)
                 # [xs |-> <<>>, ys |-> <<>>]
       \/ pc = "row" /\ (ty >= GridH - 1 \/ ~RowSent(ty))
       \/ pc = "cell" /\ tx < GridW - 1 /\ Sent(tx, ty) = 0
    /\ pc' = "thrown"
    /\ stack' = <<>>
    /\ xs' = <<>> /\ ys' = <<>>
    /\ xps' = EmptyPositions /\ yps' = EmptyPositions
    /\ cells' = NoCells
    /\ sent' = IF pc = "row" /\ ty >= GridH - 1 THEN <<>> ELSE sent
    /\ tx' = 0 /\ ty' = 0
    /\ table' = NULL /\ tr' = NULL
    /\ UNCHANGED <<heap, run, structs1>>

Next ==
    \/ HuntEnter
    \/ HuntDescend
    \/ HuntScanEnd
    \/ HuntCollect
    \/ HuntAssertFails
    \/ HuntMakePositions
    \/ HuntWalkGridLines
    \/ HuntEraseGridLines
    \/ HuntMergeColumns
    \/ HuntMergeRows
    \/ TranscribeTable
    \/ TranscribeSkipRow
    \/ TranscribeRow
    \/ TranscribeSkipCell
    \/ TranscribeCell
    \/ TranscribeRowEnd
    \/ HuntAddGridBlock
    \/ HuntReturn
    \/ HuntAllocFails

Spec == Init /\ [][Next]_vars

(***************************************************************************)
(* check_for_grid_lines entered after erase_grid_lines with a matrix that  *)
(* is not derived from a page: 3 x 3 dividers (2 x 2 cells and the border  *)
(* column and row), every count 0 or 1, at most MaxLines edges drawn.      *)
(* v_crossed is set only right of column 0 and h_crossed only below row 0, *)
(* and only in a full cell, as lines 1137-1151 set them; the border cells  *)
(* are zero.  The parent is an empty structural block.                     *)
(***************************************************************************)
MaxLines == 2

Bit == {0, 1}

\* what the content walker can leave in cell (x, y)
ContentAt(x, y) ==
    {c \in [full : Bit, v_crossed : Bit, h_crossed : Bit] :
        /\ c.v_crossed = 1 => c.full = 1 /\ x > 0
        /\ c.h_crossed = 1 => c.full = 1 /\ y > 0}

\* edge 2k - 1 is h_line, edge 2k is v_line of the k-th cell off the border
DrawnEdges == {e \in SUBSET (1..8) : Cardinality(e) <= MaxLines}

MatrixCell(c, e, k) ==
    [full |-> c.full, v_crossed |-> c.v_crossed, h_crossed |-> c.h_crossed,
     h_line |-> Flag(2 * k - 1 \in e), v_line |-> Flag(2 * k \in e)]

\* the 3 x 3 matrix with the cells content <<c1, c2, c3, c4>> and edges e
Matrix(content, e) ==
    [w |-> 3, h |-> 3,
     cell |-> [i \in 1..9 |->
                 IF i \in {1, 2} THEN MatrixCell(content[i], e, i)
                 ELSE IF i \in {4, 5} THEN MatrixCell(content[i - 1], e, i - 1)
                 ELSE ZeroCell]]

\* dividers 0, 2, 4, the middle one with uncertainty u
MatrixPositions(u) ==
    [list |-> <<GridPos(Q(0), Q(0), Q(0), 0), GridPos(Q(2), Q(1), Q(3), u),
                GridPos(Q(4), Q(4), Q(4), 0)>>,
     max_uncertainty |-> u]

MatrixInit ==
    \E content \in ContentAt(0, 0) \X ContentAt(1, 0) \X ContentAt(0, 1)
                      \X ContentAt(1, 1),
       e \in DrawnEdges, ux \in Bit, uy \in Bit :
      \E h \in {BuildPage(<<>>, TRUE)} :
        /\ page = h.page
        /\ blocks = h.blocks
        /\ structs = h.structs
        /\ lines = h.lines
        /\ chars = h.chars
        /\ pc = "mergecolumns"
        /\ stack = <<[Frame(h, NULL) EXCEPT !.block = NULL, !.count = 1],
                     Frame(h, 1)>>
        /\ run = MaxRuns
        /\ xs = <<>> /\ ys = <<>>
        /\ xps = MatrixPositions(ux) /\ yps = MatrixPositions(uy)
        /\ cells = Matrix(content, e)
        /\ sent = <<>>
        /\ tx = 0 /\ ty = 0
        /\ table = NULL /\ tr = NULL
        /\ structs1 = 0

\* the pages of Init and the matrices of MatrixInit
MatrixSpec == (Init \/ MatrixInit) /\ [][Next]_vars

(***************************************************************************)
(* Properties                                                              *)
(***************************************************************************)
\* the characters of a sequence of lines, in order
RECURSIVE CharsOfLines(_, _)
CharsOfLines(h, ls) ==
    IF ls = <<>> THEN <<>>
    ELSE LineChars(h, Head(ls)) \o CharsOfLines(h, Tail(ls))

\* the characters met by forward traversal from block b: first_block/next,
\* descending into structural children, lines and characters
RECURSIVE CharsUnder(_, _, _)
CharsUnder(h, b, fuel) ==
    IF b = NULL \/ fuel = 0 THEN <<>>
    ELSE (IF h.blocks[b].type = "text" THEN CharsOfLines(h, BlockLines(h, b))
          ELSE IF h.blocks[b].type = "struct" /\ h.blocks[b].down # NULL
          THEN CharsUnder(h, h.structs[h.blocks[b].down].first_block, fuel - 1)
          ELSE <<>>)
         \o CharsUnder(h, h.blocks[b].next, fuel - 1)

PageChars(h) == CharsUnder(h, h.page.first_block, Len(h.blocks))

\* the (character, quad) pair of character a
Glyph(h, a) == <<h.chars[a].c, h.chars[a].quad>>

\* how often the pair v is met in the sequence s of characters
Occurrences(h, s, v) == Cardinality({i \in 1..Len(s) : Glyph(h, s[i]) = v})

\* the multiset of pairs met on the page is the multiset of the pairs of all
\* characters that exist
AllCharsOnPage(h) ==
    LET s == PageChars(h)
    IN  /\ Len(s) = Len(h.chars)
        /\ \A a \in 1..Len(h.chars) :
               Occurrences(h, s, Glyph(h, a))
                   = Cardinality({k \in 1..Len(h.chars) : Glyph(h, k) = Glyph(h, a)})

\* C1: character conservation.  No character is ever allocated or freed and
\* no action changes a character's code or quad, and before the first run
\* every character is met by forward traversal from the page root; the claim
\* says that the same multiset of (character, quad) pairs is met after
\* fz_table_hunt has returned.
C1_CharacterConservation ==
    pc \in {"idle", "done"} => AllCharsOnPage(Heap)

\* C2: sibling linkage.  For the page's list and for the child list of every
\* structural node, the blocks met from first_block by next are the blocks
\* met from last_block by prev, reversed, after every step.
C2_SiblingLinkage ==
    \A parent \in 0..Len(structs) :
        FwdList(Heap, parent) = Reverse(BwdList(Heap, parent))

\* the index values of the structural blocks of a list, in list order
RECURSIVE StructIndices(_, _)
StructIndices(h, ids) ==
    IF ids = <<>> THEN <<>>
    ELSE (IF h.blocks[Head(ids)].type = "struct"
          THEN <<h.blocks[Head(ids)].index>> ELSE <<>>)
         \o StructIndices(h, Tail(ids))

StrictlyIncreasing(s) == \A i \in 1..(Len(s) - 1) : s[i] < s[i + 1]

\* C3: structural index monotonicity.  After every add_struct_block_before
\* the index values of the structural blocks of each parent, in list order,
\* are strictly increasing.
C3_IndexMonotonicity ==
    \A parent \in 0..Len(structs) :
        StrictlyIncreasing(StructIndices(Heap, FwdList(Heap, parent)))

\* a is b with some entries left out
RECURSIVE IsSubseq(_, _)
IsSubseq(a, b) ==
    IF a = <<>> THEN TRUE
    ELSE IF b = <<>> THEN FALSE
    ELSE IF Head(a) = Head(b) THEN IsSubseq(Tail(a), Tail(b))
    ELSE IsSubseq(a, Tail(b))

\* the entries of s that existed when n objects had been allocated
Old(s, n) == SelectSeq(s, LAMBDA x : x <= n)

\* the lines of the text blocks of a list, in order
RECURSIVE LinesOfBlocks(_, _)
LinesOfBlocks(h, ids) ==
    IF ids = <<>> THEN <<>>
    ELSE (IF h.blocks[Head(ids)].type = "text" THEN BlockLines(h, Head(ids))
          ELSE <<>>)
         \o LinesOfBlocks(h, Tail(ids))

LevelLines(h, parent) == LinesOfBlocks(h, FwdList(h, parent))
LevelChars(h, parent) == CharsOfLines(h, LevelLines(h, parent))

\* h2 is h after the content of src has been divided between src and the
\* so far empty dest, nothing lost, nothing met twice, order kept on both
\* sides; blocks and lines made on the way are new and are not compared
StablePartition(h, h2, src, dest) ==
    /\ IsSubseq(FwdList(h2, src), FwdList(h, src))
    /\ IsSubseq(Old(FwdList(h2, dest), Len(h.blocks)), FwdList(h, src))
    /\ Len(FwdList(h2, src)) + Len(Old(FwdList(h2, dest), Len(h.blocks)))
           = Len(FwdList(h, src))
    /\ IsSubseq(LevelLines(h2, src), LevelLines(h, src))
    /\ IsSubseq(Old(LevelLines(h2, dest), Len(h.lines)), LevelLines(h, src))
    /\ IsSubseq(LevelChars(h2, src), LevelChars(h, src))
    /\ IsSubseq(LevelChars(h2, dest), LevelChars(h, src))
    /\ Len(LevelChars(h2, src)) + Len(LevelChars(h2, dest))
           = Len(LevelChars(h, src))

\* C4: order preservation of the content transplant.  Every step that fills
\* a Cell is a stable partition of the source list: the blocks, lines and
\* characters left in the source parent keep their relative order, and those
\* moved into the Cell are there in the order they had in the source.
C4_StablePartition ==
    [][TranscribeCell =>
          StablePartition(Heap, Heap', Top.parent, Len(structs'))]_vars

\* a Cell holds a text block with two lines taken out of a block of which
\* another line is still in the source parent
C4_Witness ==
    /\ pc = "cell"
    /\ Top.parent # NULL
    /\ LevelLines(Heap, Top.parent) # <<>>
    /\ \E d \in 1..Len(structs) :
           /\ structs[d].standard = "TD"
           /\ Len(LevelLines(Heap, d)) >= 2
           /\ Len(LevelChars(Heap, d)) >= 2

\* one of the reasons for which a level gets no Table: at most one
\* content-bearing child (the event lists are then empty), too few events,
\* fewer than 3 dividers on an axis
NoTableCause ==
    \/ Top.count <= 1
    \/ ~EnoughEvents(xs, ys)
    \/ Len(xps.list) < 3
    \/ Len(yps.list) < 3

\* C5: no table, no change.  When do_table_hunt is about to return from a
\* level for which it made no Table, or for which one of the causes above
\* holds, the block list of the level is as it was on entry: same first and
\* last block, same blocks in the same order, and every block's record (links,
\* bounding box, index, lines) the same.
C5_NoTableNoChange ==
    pc = "leveldone" /\ (table = NULL \/ NoTableCause)
        => Snapshot(Heap, Top.parent) = Top.snap

\* a level with two or more content-bearing children and enough events, for
\* which the merges left fewer than 3 dividers on an axis
C5_Witness ==
    /\ pc = "leveldone"
    /\ table = NULL
    /\ Top.count >= 2
    /\ EnoughEvents(xs, ys)
    /\ Len(xps.list) < 3 \/ Len(yps.list) < 3
    /\ Top.snap.ids # <<>>

\* the sides of the entries of a sanitized list alternate, from a left to a
\* right one
WellShaped(l) ==
    \/ l = <<>>
    \/ /\ l[1].left = 1
       /\ l[Len(l)].left = 0
       /\ \A i \in 1..(Len(l) - 1) : l[i].left # l[i + 1].left

\* pos strictly increasing, first and last entry certain
Monotone(p) ==
    \/ p.list = <<>>
    \/ /\ \A i \in 1..(Len(p.list) - 1) :
              QLt(p.list[i].pos, p.list[i + 1].pos)
       /\ p.list[1].uncertainty = 0
       /\ p.list[Len(p.list)].uncertainty = 0

\* C7: minimum grid.  While a Table is being emitted both divider lists have
\* at least 3 entries, and there were more than two events on each axis.
C7_MinimumGrid ==
    table # NULL =>
        /\ Len(xps.list) >= 3 /\ Len(yps.list) >= 3
        /\ EnoughEvents(xs, ys)

\* a Table is being emitted for a grid of exactly 3 dividers on an axis that
\* had 4 before the merges
C7_Witness ==
    /\ table # NULL
    /\ pc = "row"
    /\ Len(xps.list) = 3
    /\ Len(xs) >= 6

\* C9: grid monotonicity.  Whenever the divider lists exist (after
\* make_table_positions, after the rules have reinforced them, after the
\* merges) their pos values are strictly increasing and their first and last
\* entries have uncertainty 0.
C9_GridMonotonicity ==
    Monotone(xps) /\ Monotone(yps)

\* C10: sanitized event shape.  The lists that sanitize_positions returns
\* alternate between left and right entries, start with a left and end with
\* a right one, and no assertion of make_table_positions fails on them.
C10_SanitizedShape ==
    /\ WellShaped(xs) /\ WellShaped(ys)
    /\ pc = "positions" => ~Positions.x.failed /\ ~Positions.y.failed

IsStd(b, std) ==
    /\ blocks[b].type = "struct"
    /\ blocks[b].down # NULL
    /\ structs[blocks[b].down].standard = std

\* the grid block of the Table d
GridOf(d) ==
    LET ids == FwdList(Heap, d)
    IN  blocks[ids[CHOOSE i \in 1..Len(ids) : blocks[ids[i]].type = "grid"]]

\* r lies between two x dividers and two y dividers of the grid block g
DividerRect(r, g) ==
    \E i, j \in 1..Len(g.xs.list), k, l \in 1..Len(g.ys.list) :
        /\ i < j /\ k < l
        /\ r = Rect(g.xs.list[i].pos, g.ys.list[k].pos,
                    g.xs.list[j].pos, g.ys.list[l].pos)

\* r is the strip over the full width between two consecutive y dividers
RowStrip(r, g) ==
    \E k \in 1..(Len(g.ys.list) - 1) :
        r = Rect(g.xs.list[1].pos, g.ys.list[k].pos,
                 g.xs.list[Len(g.xs.list)].pos, g.ys.list[k + 1].pos)

\* the union of the bounding boxes of the rows among the blocks ids
RECURSIVE UnionOfRows(_, _)
UnionOfRows(ids, acc) ==
    IF ids = <<>> THEN acc
    ELSE UnionOfRows(Tail(ids),
                     IF IsStd(Head(ids), "TR")
                     THEN fz_union_rect(acc, blocks[Head(ids)].bbox) ELSE acc)

TextBoxIsUnion(b) ==
    blocks[b].type = "text" =>
        blocks[b].bbox = UnionLineBoxes(Heap, BlockLines(Heap, b), fz_empty_rect)

CellBoxIsDividerRect(b) ==
    IsStd(b, "TD") =>
        DividerRect(blocks[b].bbox,
                    GridOf(structs[structs[blocks[b].down].parent].parent))

\* C6, as claimed: after hunting every text block's bbox is the union of its
\* lines' bboxes, every structural block's bbox (Table and TR included, Cells
\* apart) is the union of the bboxes of the blocks of its child list, and
\* every Cell's bbox is the rectangle of the dividers it spans.
C6_BoxesAreUnions ==
    pc = "done" =>
        \A b \in 1..Len(blocks) :
            /\ TextBoxIsUnion(b)
            /\ CellBoxIsDividerRect(b)
            /\ (blocks[b].type = "struct" /\ blocks[b].down # NULL
                    /\ ~IsStd(b, "TD"))
                 => blocks[b].bbox
                       = BboxOfBlocks(Heap, structs[blocks[b].down].first_block,
                                      fz_empty_rect)

\* C6, amended: after hunting every text block's bbox is the union of its
\* lines' bboxes, every Cell's bbox is a rectangle between dividers of its
\* Table's grid, every TR's bbox is the strip over the full width of the grid
\* between two consecutive y dividers, and every Table's bbox is the union of
\* the bboxes of its TRs.
C6_BoxesAfterHunting ==
    pc = "done" =>
        \A b \in 1..Len(blocks) :
            /\ TextBoxIsUnion(b)
            /\ CellBoxIsDividerRect(b)
            /\ IsStd(b, "TR") =>
                   RowStrip(blocks[b].bbox,
                            GridOf(structs[blocks[b].down].parent))
            /\ IsStd(b, "Table") =>
                   blocks[b].bbox
                       = UnionOfRows(FwdList(Heap, blocks[b].down), fz_empty_rect)

\* hunting is over and left a Cell that reaches below its row, together with
\* a text block made of lines taken out of another block
C6_Witness ==
    /\ pc = "done"
    /\ \E b \in 1..Len(blocks) :
           /\ IsStd(b, "TD")
           /\ QGt(blocks[b].bbox.y1,
                  blocks[structs[structs[blocks[b].down].parent].up].bbox.y1)

\* d, or a structural node above it, is a Table of the first run
RECURSIVE InFirstRunTable(_, _)
InFirstRunTable(d, fuel) ==
    /\ d # NULL
    /\ fuel > 0
    /\ \/ d <= structs1 /\ structs[d].standard = "Table"
       \/ InFirstRunTable(structs[d].parent, fuel - 1)

LaterTable(d) == d > structs1 /\ structs[d].standard = "Table"

\* C8, as claimed: a run after the first creates no Table inside a subtree
\* of a Table of the first run.
C8_NoTableInsideTable ==
    \A d \in 1..Len(structs) :
        LaterTable(d) => ~InFirstRunTable(structs[d].parent, Len(structs))

\* C8, amended: a run after the first creates no Table whose parent is a
\* Table or a TR (a Cell that holds two or more text blocks is hunted like
\* any other parent and may receive a Table).
C8_NoTableUnderTableOrRow ==
    \A d \in 1..Len(structs) :
        LaterTable(d) /\ structs[d].parent # NULL
            => structs[structs[d].parent].standard \notin {"Table", "TR"}

\* the second run is over on a page with a Table of the first run, and it
\* has made a Table of its own
C8_Witness ==
    /\ pc = "done"
    /\ run = 2
    /\ \E d \in 1..Len(structs) : d <= structs1 /\ structs[d].standard = "Table"
    /\ \E d \in 1..Len(structs) : LaterTable(d)

(***************************************************************************)
(* The winding of an event list                                            *)
(***************************************************************************)
RECURSIVE SumFreq(_, _)
SumFreq(l, left) ==
    IF l = <<>> THEN 0
    ELSE (IF Head(l).left = left THEN Head(l).freq ELSE 0) + SumFreq(Tail(l), left)

Balanced(l) == SumFreq(l, 1) = SumFreq(l, 0)

SameSums(l, m) == SumFreq(l, 1) = SumFreq(m, 1) /\ SumFreq(l, 0) = SumFreq(m, 0)

\* what walk_blocks hands to sanitize_positions at the level being hunted
RawEvents ==
    WalkBlocks(Heap, [xs |-> <<>>, ys |-> <<>>], FirstBlock(Heap, Top.parent),
               Descend)

\* wind after the loop of lines 648-674
FinalWind(l) ==
    CopyEdges(l, 1, [wind |-> 0, local_min |-> 0, hi |-> 0, out |-> <<>>]).wind

\* C11: the events walk_blocks collects carry as much freq on left entries
\* as on right entries, sanitize_positions keeps both sums, and the walk of
\* make_table_positions over a sanitized list ends with wind = 0.
C11_WindingClosure ==
    /\ pc = "collect" =>
          \E e \in {RawEvents} :
              /\ Balanced(e.xs) /\ Balanced(e.ys)
              /\ SameSums(e.xs, SanitizePositions(e.xs))
              /\ SameSums(e.ys, SanitizePositions(e.ys))
    /\ pc = "positions" => FinalWind(xs) = 0 /\ FinalWind(ys) = 0

\* sanitize_positions folded a run: the list handed to make_table_positions
\* is shorter than the collected one and an entry carries a freq above 1
C11_Witness ==
    /\ pc = "positions"
    /\ \E e \in {RawEvents} : Len(xs) < Len(e.xs) /\ Len(xs) > 2
    /\ \E i \in 1..Len(xs) : xs[i].freq > 1


(***************************************************************************)
(* The pure 2 x 2 grid: page 18                                            *)
(***************************************************************************)
OnWordGrid == chars = BuildPage(Pages[18], FALSE).chars

\* the structs with the given standard among the children of struct d
ChildStructs(d, std) ==
    LET ids == SelectSeq(FwdList(Heap, d), LAMBDA b : IsStd(b, std))
    IN  [i \in 1..Len(ids) |-> blocks[ids[i]].down]

Tables == {d \in 1..Len(structs) : structs[d].standard = "Table"}

\* the bboxes of the Cells of Table t, row by row
CellBoxes(t) ==
    LET rows == ChildStructs(t, "TR")
    IN  [i \in 1..Len(rows) |->
           LET tds == ChildStructs(rows[i], "TD")
           IN  [j \in 1..Len(tds) |-> blocks[structs[tds[j]].up].bbox]]

IntRect(x0, y0, x1, y1) == Rect(Q(x0), Q(y0), Q(x1), Q(y1))

\* one Table whose grid kept its three x and three y dividers
OneUnmergedTable ==
    /\ Cardinality(Tables) = 1
    /\ \A t \in Tables :
           Len(GridOf(t).xs.list) = 3 /\ Len(GridOf(t).ys.list) = 3

\* C12, as claimed: on the pure 2 x 2 grid hunting emits one Table with two
\* Rows of two Cells, merges no column and no row, and the Cells have the
\* bounding boxes of the four text blocks.
C12_WordGridCellsAreBlocks ==
    pc = "done" /\ OnWordGrid =>
        /\ OneUnmergedTable
        /\ \A t \in Tables :
               CellBoxes(t) = << <<IntRect(10, 10, 50, 30), IntRect(60, 10, 100, 30)>>,
                                 <<IntRect(10, 40, 50, 60), IntRect(60, 40, 100, 60)>> >>

\* C12, amended: on the pure 2 x 2 grid hunting emits one Table with two
\* Rows of two Cells, merges no column and no row, and the Cells are the
\* rectangles of the dividers 10, 55, 100 and 10, 35, 60.
C12_WordGridCellsAreDividerRects ==
    pc = "done" /\ OnWordGrid =>
        /\ OneUnmergedTable
        /\ \A t \in Tables :
               CellBoxes(t) = << <<IntRect(10, 10, 55, 35), IntRect(55, 10, 100, 35)>>,
                                 <<IntRect(10, 35, 55, 60), IntRect(55, 35, 100, 60)>> >>

\* hunting is over on the pure 2 x 2 grid and there is a Table
C12_Witness == pc = "done" /\ OnWordGrid /\ Tables # {}


(***************************************************************************)
(* The cell matrix after erase_grid_lines                                  *)
(***************************************************************************)
AfterContentWalk ==
    /\ pc \in {"mergecolumns", "mergerows", "transcribe", "row", "cell", "leveldone"}
    /\ cells.w > 0

NoContent(c) == c.full = 0 /\ c.h_crossed = 0 /\ c.v_crossed = 0

\* C13: once erase_grid_lines has run, and through merge_columns, merge_rows
\* and transcribe_table, every cell of the last column and of the last row
\* has full = 0, h_crossed = 0 and v_crossed = 0.
C13_BorderCellsEmpty ==
    AfterContentWalk =>
        /\ \A y \in 0..(cells.h - 1) : NoContent(GetCell(cells, cells.w - 1, y))
        /\ \A x \in 0..(cells.w - 1) : NoContent(GetCell(cells, x, cells.h - 1))


(***************************************************************************)
(* Which characters of a line are content                                  *)
(***************************************************************************)
\* character i of the line cs is a glyph, or a space between two glyphs
IsContentChar(h, cs, i) ==
    \/ h.chars[cs[i]].c # Space
    \/ /\ 1 < i /\ i < Len(cs)
       /\ h.chars[cs[i - 1]].c # Space
       /\ h.chars[cs[i + 1]].c # Space

ContentChars(h, line) ==
    LET cs == LineChars(h, line)
        is == SelectSeq([i \in 1..Len(cs) |-> i], LAMBDA i : IsContentChar(h, cs, i))
    IN  [k \in 1..Len(is) |-> cs[is[k]]]

\* the text blocks met from block b on, descending into structural blocks
RECURSIVE TextBlocksFrom(_, _, _)
TextBlocksFrom(h, b, fuel) ==
    IF b = NULL \/ fuel = 0 THEN <<>>
    ELSE (IF h.blocks[b].type = "text" THEN <<b>>
          ELSE IF h.blocks[b].type = "struct" /\ h.blocks[b].down # NULL
          THEN TextBlocksFrom(h, h.structs[h.blocks[b].down].first_block, fuel - 1)
          ELSE <<>>)
         \o TextBlocksFrom(h, h.blocks[b].next, fuel - 1)

\* the block reaches into the rectangle of the grid
InsideGrid(h, gd, b) ==
    /\ QLt(h.blocks[b].bbox.x0, GridBounds(gd).x1)
    /\ QLt(h.blocks[b].bbox.y0, GridBounds(gd).y1)
    /\ QGt(h.blocks[b].bbox.x1, GridBounds(gd).x0)
    /\ QGt(h.blocks[b].bbox.y1, GridBounds(gd).y0)

RECURSIVE CharsOfContent(_, _)
CharsOfContent(h, ls) ==
    IF ls = <<>> THEN <<>>
    ELSE ContentChars(h, Head(ls)) \o CharsOfContent(h, Tail(ls))

\* the content characters below parent, in the walker's order
WalkedContent(h, gd, parent) ==
    LET bs == SelectSeq(TextBlocksFrom(h, FirstBlock(h, parent), Len(h.blocks)),
                        LAMBDA b : InsideGrid(h, gd, b))
    IN  CharsOfContent(h, LinesOfBlocks(h, bs))

\* the matrix after each character of cs has been entered once
RECURSIVE EnterChars(_, _, _)
EnterChars(h, gd, cs) ==
    IF cs = <<>> THEN gd
    ELSE EnterChars(h, EraseChar(gd, fz_rect_from_quad(h.chars[Head(cs)].quad)),
                    Tail(cs))

\* C14: erase_grid_lines increments full, h_crossed and v_crossed exactly as
\* if every glyph and every space standing alone between two glyphs were
\* entered once and no leading space, trailing space or space of a run of
\* two or more were entered at all.
C14_SpacesAreNotContent ==
    [][HuntEraseGridLines =>
          cells' = EnterChars(Heap, Gd, WalkedContent(Heap, Gd, Top.parent)).cells]_vars

\* the walker has run over a line that holds a space that is content and a
\* space that is not, and has entered something
C14_Witness ==
    /\ pc = "mergecolumns"
    /\ \E l \in 1..Len(lines) :
           \E i, j \in 1..Len(LineChars(Heap, l)) :
               /\ chars[LineChars(Heap, l)[i]].c = Space
               /\ chars[LineChars(Heap, l)[j]].c = Space
               /\ IsContentChar(Heap, LineChars(Heap, l), i)
               /\ ~IsContentChar(Heap, LineChars(Heap, l), j)
    /\ \E k \in 1..Len(cells.cell) : cells.cell[k].full > 1


(***************************************************************************)
(* The positions the emitted Cells cover                                   *)
(***************************************************************************)
\* the span transcribe_table is about to give the Cell at (tx, ty)
SpanW == CellWidth(Gd, tx + 1, ty, 1)
SpanH == CellHeight(Gd, tx, ty + 1, SpanW, 1)

\* C15: every Cell transcribe_table emits covers only positions no earlier
\* Cell covers, and when transcribe_table is over every position (x, y) with
\* x < W-1 and y < H-1 is covered.
C15_CellsPartitionGrid ==
    /\ [][TranscribeCell =>
             \A x2 \in tx..(tx + SpanW - 1), y2 \in ty..(ty + SpanH - 1) :
                 Sent(x2, y2) = 0]_vars
    /\ [](pc = "row" /\ ty >= GridH - 1 =>
             \A x \in 0..(GridW - 2), y \in 0..(GridH - 2) : Sent(x, y) = 1)


(***************************************************************************)
(* The span of an emitted Cell                                             *)
(***************************************************************************)
\* transcribe_table stands before an unsent position
AboutToEmit == pc = "cell" /\ tx < GridW - 1 /\ Sent(tx, ty) = 0

\* C16: the Cell transcribe_table emits at (tx, ty) covers columns
\* tx..tx+cellw-1 and rows ty..ty+cellh-1 such that every X divider strictly
\* inside has nonzero uncertainty and no v_line in any covered row, every Y
\* divider strictly inside has nonzero uncertainty and no h_line in any
\* covered column, and the span ends at or before the last dividers.
C16_SpansRespectBoundaries ==
    AboutToEmit =>
        /\ \A i \in (tx + 1)..(tx + SpanW - 1) :
               /\ xps.list[i + 1].uncertainty # 0
               /\ \A y \in ty..(ty + SpanH - 1) : GetCell(cells, i, y).v_line = 0
        /\ \A j \in (ty + 1)..(ty + SpanH - 1) :
               /\ yps.list[j + 1].uncertainty # 0
               /\ \A x \in tx..(tx + SpanW - 1) : GetCell(cells, x, j).h_line = 0
        /\ tx + SpanW <= GridW - 1
        /\ ty + SpanH <= GridH - 1

\* the first Cell of a Table has been emitted and spans two columns and two
\* rows of a matrix in which an edge is drawn
C16_Witness ==
    /\ pc = "cell" /\ tx = 1 /\ ty = 0
    /\ GridW = 3 /\ GridH = 3
    /\ Sent(1, 1) = 1
    /\ \E k \in 1..Len(cells.cell) : cells.cell[k].h_line # 0 \/ cells.cell[k].v_line # 0


(***************************************************************************)
(* The dividers merge_columns and merge_rows delete                        *)
(***************************************************************************)
\* X divider i is uncertain and no cell (i, y) has a line on its left edge
SoftColumn(gd, i) ==
    /\ gd.xpos.list[i + 1].uncertainty # 0
    /\ \A y \in 0..(gd.cells.h - 1) : GetCell(gd.cells, i, y).v_line = 0

SoftRow(gd, i) ==
    /\ gd.ypos.list[i + 1].uncertainty # 0
    /\ \A x \in 0..(gd.cells.w - 1) : GetCell(gd.cells, x, i).h_line = 0

\* every divider merge_columns deletes, from column x downwards, is soft
RECURSIVE DeletesSoftColumns(_, _, _)
DeletesSoftColumns(gd, x, dir) ==
    IF x < 0 THEN TRUE
    ELSE IF ColumnMergeable(gd, x)
    THEN SoftColumn(gd, x + 1) /\ DeletesSoftColumns(MergeColumn(gd, x, dir), x - 1, dir)
    ELSE DeletesSoftColumns(gd, x - 1, dir)

RECURSIVE DeletesSoftRows(_, _, _)
DeletesSoftRows(gd, y, dir) ==
    IF y < 0 THEN TRUE
    ELSE IF RowMergeable(gd, y)
    THEN SoftRow(gd, y + 1) /\ DeletesSoftRows(MergeRow(gd, y, dir), y - 1, dir)
    ELSE DeletesSoftRows(gd, y - 1, dir)

\* C17: every X divider merge_columns deletes has nonzero uncertainty and no
\* v_line on any of its cells, and every Y divider merge_rows deletes has
\* nonzero uncertainty and no h_line on any of its cells.
C17_HardBoundariesSurvive ==
    /\ pc = "mergecolumns" =>
          \A dir \in {"fwd", "bwd"} : DeletesSoftColumns(Gd, cells.w - 3, dir)
    /\ pc = "mergerows" =>
          \A dir \in {"fwd", "bwd"} : DeletesSoftRows(Gd, cells.h - 3, dir)

(***************************************************************************)
(* When merge_columns merges                                               *)
(***************************************************************************)
\* the condition of the claim on the pair a = (x, y), b = (x + 1, y)
ClaimedPair(a, b) ==
    /\ b.v_line = 0
    /\ \/ a.full = 0
       \/ b.full = 0
       \/ /\ b.v_crossed # 0
          /\ \/ a.h_line = 0 /\ b.h_line = 0
             \/ a.h_line # 0 /\ b.h_line # 0

\* from column x downwards merge_columns merges exactly the columns whose
\* pairs satisfy the claimed condition in the rows 0..last
RECURSIVE MergesWhenClaimed(_, _, _, _)
MergesWhenClaimed(gd, x, dir, last) ==
    IF x < 0 THEN TRUE
    ELSE /\ ColumnMergeable(gd, x)
             <=> \A y \in 0..last :
                     ClaimedPair(GetCell(gd.cells, x, y), GetCell(gd.cells, x + 1, y))
         /\ MergesWhenClaimed(IF ColumnMergeable(gd, x) THEN MergeColumn(gd, x, dir)
                               ELSE gd,
                               x - 1, dir, last)

\* C18: merge_columns merges column x+1 into column x if and only if the
\* pair (x, y), (x+1, y) satisfies the claimed condition in every row y of
\* the matrix.
C18_ColumnMergeability ==
    pc = "mergecolumns" =>
        \A dir \in {"fwd", "bwd"} : MergesWhenClaimed(Gd, cells.w - 3, dir, cells.h - 1)

(***************************************************************************)
(* The top edges of merged cells                                           *)
(***************************************************************************)
\* in every row the cells of columns x and x + 1 agree on having a top edge
AgreeOnHLine(gd, x) ==
    \A y \in 0..(gd.cells.h - 1) :
        (GetCell(gd.cells, x, y).h_line # 0) = (GetCell(gd.cells, x + 1, y).h_line # 0)

RECURSIVE MergedAgreeOnHLine(_, _, _)
MergedAgreeOnHLine(gd, x, dir) ==
    IF x < 0 THEN TRUE
    ELSE IF ColumnMergeable(gd, x)
    THEN AgreeOnHLine(gd, x) /\ MergedAgreeOnHLine(MergeColumn(gd, x, dir), x - 1, dir)
    ELSE MergedAgreeOnHLine(gd, x - 1, dir)

\* C19: whenever merge_columns merges column x+1 into column x, the two
\* cells of every row agree on whether h_line is nonzero, so that the left
\* cell's h_line, which the merged cell keeps, stands for both.
C19_NoHorizontalEdgeLost ==
    pc = "mergecolumns" =>
        \A dir \in {"fwd", "bwd"} : MergedAgreeOnHLine(Gd, cells.w - 3, dir)


(***************************************************************************)
(* Row reduction against column reduction                                  *)
(***************************************************************************)
\* the cell seen with X and Y exchanged
TransposeCell(c) ==
    [h_line |-> c.v_line, v_line |-> c.h_line,
     h_crossed |-> c.v_crossed, v_crossed |-> c.h_crossed, full |-> c.full]

\* the matrix and the divider lists seen with X and Y exchanged
Transpose(gd) ==
    [gd EXCEPT
       !.cells = [w |-> gd.cells.h, h |-> gd.cells.w,
                  cell |-> [k \in 1..(gd.cells.w * gd.cells.h) |->
                              TransposeCell(GetCell(gd.cells,
                                                    (k - 1) \div gd.cells.h,
                                                    (k - 1) % gd.cells.h))]],
       !.xpos = gd.ypos,
       !.ypos = gd.xpos]

\* the w x h cells of the matrix, last column and last row included, and the
\* divider lists (cells beyond w * h are no longer part of the matrix)
MatrixOf(gd) ==
    [w |-> gd.cells.w, h |-> gd.cells.h,
     cell |-> [x \in 0..(gd.cells.w - 1), y \in 0..(gd.cells.h - 1) |->
                 GetCell(gd.cells, x, y)],
     xpos |-> gd.xpos.list, ypos |-> gd.ypos.list]

\* C20: merge_rows applied to a matrix M and its divider lists yields, cell
\* for cell (last column and last row included) and divider for divider, the
\* transpose of what merge_columns yields on the transposed M.
C20_RowsTransposeColumns ==
    pc \in {"mergecolumns", "mergerows"} =>
        \A dir \in {"fwd", "bwd"} :
            MatrixOf(MergeRows(Gd, dir)) =
                MatrixOf(Transpose(MergeColumns(Transpose(Gd), dir)))


(***************************************************************************)
(* Reinforcement of a divider                                              *)
(***************************************************************************)
MaxHits == 2

\* the coordinates looked up, some inside the windows and some between them
Coords == -1..9

CoordSeqs == UNION {[1..n -> Coords] : n \in 1..MaxHits}

\* the lookups of cs one after the other: the list left and the indices returned
RECURSIVE Lookups(_, _, _)
Lookups(list, cs, expand) ==
    IF cs = <<>> THEN [list |-> list, idx |-> <<>>]
    ELSE LET f == FindGridPosWithReinforcement(list, Q(Head(cs)), expand, 0)
             rest == Lookups(f.list, Tail(cs), expand)
         IN  [list |-> rest.list, idx |-> <<f.i>> \o rest.idx]

\* lookup j returned divider i (counted from 1) and lies inside its window
HitOn(list, cs, idx, i, j) ==
    idx[j] = i - 1 /\ QLe(list[i].min, Q(cs[j])) /\ QLe(Q(cs[j]), list[i].max)

\* the number and the sum of the hits on divider i among the lookups 1..j
RECURSIVE HitCount(_, _, _, _, _)
HitCount(list, cs, idx, i, j) ==
    IF j = 0 THEN 0
    ELSE HitCount(list, cs, idx, i, j - 1) + Flag(HitOn(list, cs, idx, i, j))

RECURSIVE HitSum(_, _, _, _, _)
HitSum(list, cs, idx, i, j) ==
    IF j = 0 THEN 0
    ELSE HitSum(list, cs, idx, i, j - 1)
             + (IF HitOn(list, cs, idx, i, j) THEN cs[j] ELSE 0)

\* divider e after k hits whose coordinates add up to sum
AfterHits(e, k, sum) ==
    IF k = 0 THEN e
    ELSE [e EXCEPT !.reinforcement = e.reinforcement + k,
                   !.pos = QNorm(e.pos[1] * e.reinforcement + sum * e.pos[2],
                                 e.pos[2] * (e.reinforcement + k))]

InWindow(e) == QLe(e.min, e.pos) /\ QLe(e.pos, e.max)

RunningMean(list, cs, expand) ==
    LET f == Lookups(list, cs, expand)
    IN  \A i \in 1..Len(list) :
            /\ f.list[i] = AfterHits(list[i], HitCount(list, cs, f.idx, i, Len(cs)),
                                      HitSum(list, cs, f.idx, i, Len(cs)))
            /\ HitCount(list, cs, f.idx, i, Len(cs)) >= 1 => InWindow(f.list[i])

\* C21: k hits on a divider add k to its reinforcement and leave pos at the
\* running mean (pos * r + x1 + ... + xk) / (r + k), the mean of the hits when
\* r was 0; pos lies in [min, max] after every hit; a lookup that snaps into a
\* gap or returns -1 changes neither pos nor reinforcement.  Before
\* walk_grid_lines every reinforcement is 0; after it every divider that was
\* hit lies in its window.
C21_ReinforcementIsRunningMean ==
    /\ pc = "grid" =>
          \A i \in 1..Len(xps.list) : xps.list[i].reinforcement = 0
    /\ pc \in {"grid", "erase"} =>
          /\ \A expand \in BOOLEAN, cs \in CoordSeqs :
                 RunningMean(xps.list, cs, expand) /\ RunningMean(yps.list, cs, expand)
    /\ pc = "erase" =>
          \A i \in 1..Len(xps.list) :
              xps.list[i].reinforcement >= 1 => InWindow(xps.list[i])

\* walk_grid_lines has hit one divider at least twice and moved it
C21_Witness ==
    /\ pc = "erase"
    /\ \E i \in 1..Len(xps.list) :
           /\ xps.list[i].reinforcement >= 2
           /\ xps.list[i].pos # QMid(xps.list[i].min, xps.list[i].max)
           /\ QLt(xps.list[i].min, xps.list[i].max)


(***************************************************************************)
(* Rules that fail to register                                             *)
(***************************************************************************)
\* the grid walk_grid_lines starts from (lines 1699-1703)
FreshGd ==
    [cells |-> NewCells(Len(xps.list), Len(yps.list)), xpos |-> xps, ypos |-> yps]

\* a registration that reports failure has left gd as it was
Ignored(gd, res) == res.failed = 1 => res.gd = gd

\* C22: whenever add_h_line or add_v_line reports failure, the cell matrix and
\* both divider lists (pos and reinforcement of every entry) are exactly as
\* they were before the call.
C22_FailedRuleIsIgnored ==
    pc = "grid" =>
        \A a \in Coords, b \in Coords, c \in Coords :
            /\ Ignored(FreshGd, AddHLine(FreshGd, Q(a), Q(b), Q(c), Q(c)))
            /\ Ignored(FreshGd, AddVLine(FreshGd, Q(a), Q(b), Q(c), Q(c)))


(***************************************************************************)
(* Rectangles                                                              *)
(***************************************************************************)
\* the four edges of r registered one after the other as in lines 1031-1034:
\* the sequence of what each registration returned
FourEdges(gd, r) ==
    LET top == AddHLine(gd, r.x0, r.x1, r.y0, r.y0)
        bottom == AddHLine(top.gd, r.x0, r.x1, r.y1, r.y1)
        left == AddVLine(bottom.gd, r.y0, r.y1, r.x0, r.x0)
        right == AddVLine(left.gd, r.y0, r.y1, r.x1, r.x1)
    IN  <<top.failed, bottom.failed, left.failed, right.failed>>

\* C23: for a vector block that is a rectangle (neither thin-horizontal nor
\* thin-vertical) walk_grid_lines takes the merge-and-retry path if and only
\* if all four edge registrations failed.
C23_RectangleRetryIffAllFailed ==
    pc = "grid" =>
        \A a \in Coords, b \in Coords, c \in Coords, d \in Coords :
            a < c /\ b < d =>
                LET r == Rect(Q(a), Q(b), Q(c), Q(d))
                IN  (RegisterVector(FreshGd, r).failed = 1)
                        <=> (FourEdges(FreshGd, r) = <<1, 1, 1, 1>>)


(***************************************************************************)
(* Dashes                                                                  *)
(***************************************************************************)
\* the first vector block from b on, or NULL
RECURSIVE FirstVector(_, _, _)
FirstVector(h, b, fuel) ==
    IF b = NULL \/ fuel = 0 THEN NULL
    ELSE IF h.blocks[b].type = "vector" THEN b
    ELSE FirstVector(h, h.blocks[b].next, fuel - 1)

Horizontal(r) == QGt(QSub(r.x1, r.x0), QSub(r.y1, r.y0))

Collinear(r, n, horiz) ==
    IF horiz THEN n.y0 = r.y0 /\ n.y1 = r.y1 ELSE n.x0 = r.x0 /\ n.x1 = r.x1

\* the gap between r and n along the rule is at most 1 unit
WithinGap(r, n, horiz) ==
    IF horiz THEN QLe(n.x0, QAdd(r.x1, Q(1))) /\ QGe(n.x1, QSub(r.x0, Q(1)))
    ELSE QLe(n.y0, QAdd(r.y1, Q(1))) /\ QGe(n.y1, QSub(r.y0, Q(1)))

\* every block the loops of lines 1043-1051 and 1059-1067 absorb, starting
\* after block with the accumulated rule r, is collinear and within the gap
RECURSIVE AbsorbsOnlyNear(_, _, _, _)
AbsorbsOnlyNear(h, block, r, horiz) ==
    Mergeable(h, r, h.blocks[block].next, horiz) =>
        /\ Collinear(r, h.blocks[h.blocks[block].next].bbox, horiz)
        /\ WithinGap(r, h.blocks[h.blocks[block].next].bbox, horiz)
        /\ AbsorbsOnlyNear(h, h.blocks[block].next,
                           fz_union_rect(r, h.blocks[h.blocks[block].next].bbox),
                           horiz)

\* the first vector block of the level fails to register: the retry path
OnRetryPath(b) ==
    /\ pc = "grid"
    /\ b = FirstVector(Heap, FirstBlock(Heap, Top.parent), Len(blocks))
    /\ b # NULL
    /\ RegisterVector(FreshGd, blocks[b].bbox).failed = 1

\* C24: on the retry path the next vector block is absorbed into the
\* accumulated rule only if it is collinear and the gap between it and the
\* accumulated rule along the rule's direction is at most 1 unit.
C24_DashMergingBoundedByGap ==
    \A b \in 1..Len(blocks) :
        OnRetryPath(b) =>
            AbsorbsOnlyNear(Heap, b, blocks[b].bbox, Horizontal(blocks[b].bbox))


(***************************************************************************)
(* Glyph runs of a line                                                    *)
(***************************************************************************)
IsGlyph(h, cs, i) == i >= 1 /\ i <= Len(cs) /\ h.chars[cs[i]].c # Space

\* glyph i continues a run when the glyph before it is at most one space away
StartsRun(h, cs, i) ==
    /\ IsGlyph(h, cs, i)
    /\ ~IsGlyph(h, cs, i - 1)
    /\ ~(i > 2 /\ IsGlyph(h, cs, i - 2))

EndsRun(h, cs, i) ==
    /\ IsGlyph(h, cs, i)
    /\ ~IsGlyph(h, cs, i + 1)
    /\ ~(i + 2 <= Len(cs) /\ IsGlyph(h, cs, i + 2))

\* where the run ending with glyph i ends: rpos at the end of the line, the
\* left edge of the space after it otherwise
RunRight(h, cs, i) ==
    IF i = Len(cs) THEN CharRpos(h, cs[i]) ELSE CharLpos(h, cs[i + 1])

\* the X events of the claim for the chars cs, from char i on: <<left, pos>>
RECURSIVE RunEvents(_, _, _)
RunEvents(h, cs, i) ==
    IF i > Len(cs) THEN <<>>
    ELSE (IF StartsRun(h, cs, i) THEN << <<1, CharLpos(h, cs[i])>> >> ELSE <<>>)
         \o (IF EndsRun(h, cs, i) THEN << <<0, RunRight(h, cs, i)>> >> ELSE <<>>)
         \o RunEvents(h, cs, i + 1)

RECURSIVE LinesEvents(_, _)
LinesEvents(h, ls) ==
    IF ls = <<>> THEN <<>>
    ELSE RunEvents(h, LineChars(h, Head(ls)), 1) \o LinesEvents(h, Tail(ls))

RECURSIVE PushAll(_, _)
PushAll(div, ev) ==
    IF ev = <<>> THEN div
    ELSE PushAll(DivListPush(div, Head(ev)[1], Head(ev)[2]), Tail(ev))

\* L, R, L, R, ...: as many right as left events
Alternates(ev) ==
    /\ Len(ev) % 2 = 0
    /\ \A i \in 1..Len(ev) : ev[i][1] = i % 2

\* C25: for every line the X events the extent collector emits are
\* L,R,L,R,... with as many right as left events, one pair per maximal glyph
\* run; a run is ended by a trailing space, by two or more consecutive spaces
\* (right event at the first space's left edge) or by the end of the line
\* (right event at rpos), never by a single interior space; a line of only
\* spaces emits nothing.  So walk_blocks leaves the X list that pushing these
\* events line by line gives.
C25_RunTrackingPerLine ==
    /\ [](pc = "collect" =>
            \A l \in 1..Len(lines) :
                /\ Alternates(RunEvents(Heap, LineChars(Heap, l), 1))
                /\ WalkChars(Heap, <<>>, lines[l].first_char, 1, 0, Q(0))
                       = PushAll(<<>>, RunEvents(Heap, LineChars(Heap, l), 1)))
    /\ [][HuntCollect =>
             xs' = SanitizePositions(
                       PushAll(<<>>, LinesEvents(Heap, LevelLines(Heap, Top.parent))))]_vars

\* a line with a single interior space inside a run and a run of spaces
\* after it has been collected
C25_Witness ==
    /\ pc = "positions"
    /\ \E l \in 1..Len(lines) :
           \E cs \in {LineChars(Heap, l)} :
               /\ Len(cs) = 4
               /\ IsGlyph(Heap, cs, 1) /\ ~IsGlyph(Heap, cs, 2)
               /\ IsGlyph(Heap, cs, 3) /\ ~IsGlyph(Heap, cs, 4)
               /\ Len(RunEvents(Heap, cs, 1)) = 2


(***************************************************************************)
(* The order of the levels                                                 *)
(***************************************************************************)
\* a structural block with a child list
HasChildList(b) == blocks[b].type = "struct" /\ blocks[b].down # NULL

\* the children of the level that are text blocks or have a child list
Qualifying(parent) ==
    {i \in 1..Len(FwdList(Heap, parent)) :
        \/ blocks[FwdList(Heap, parent)[i]].type = "text"
        \/ HasChildList(FwdList(Heap, parent)[i])}

\* the blocks from b on up to, not including, the first with a child list
RECURSIVE UpToChildList(_, _)
UpToChildList(b, fuel) ==
    IF b = NULL \/ fuel = 0 \/ HasChildList(b) THEN <<>>
    ELSE <<b>> \o UpToChildList(blocks[b].next, fuel - 1)

\* the first block with a child list from b on, or NULL
RECURSIVE NextChildList(_, _)
NextChildList(b, fuel) ==
    IF b = NULL \/ fuel = 0 THEN NULL
    ELSE IF HasChildList(b) THEN b
    ELSE NextChildList(blocks[b].next, fuel - 1)

\* the loop of the level on top has come to its end
LoopEnds ==
    /\ pc = "scan"
    /\ Len(stack') = Len(stack)
    /\ NextChildList(Top.block, Len(blocks)) = NULL

\* do_table_hunt is entered for the next structural child of the level
Recurses ==
    /\ pc = "scan" /\ pc' = "scan"
    /\ Len(stack') = Len(stack) + 1
    /\ \E c \in {NextChildList(Top.block, Len(blocks))} :
           /\ c # NULL
           /\ stack'[Len(stack')].parent = blocks[c].down
           /\ stack'[Len(stack')].block = FirstBlock(Heap, blocks[c].down)
           /\ stack'[Len(stack')].count = 0
           /\ stack'[Len(stack)].block = blocks[c].next
           /\ stack'[Len(stack)].count
                  = Top.count + 1
                    + Cardinality({i \in 1..Len(UpToChildList(Top.block, Len(blocks))) :
                         blocks[UpToChildList(Top.block, Len(blocks))[i]].type = "text"})

\* C26: at every level the pipeline starts only after do_table_hunt has
\* returned for every structural child of the level (the loop never passes a
\* child with a child list without recursing into it, and a level is resumed
\* only when the level above it on the stack is done), and it runs only if
\* the level has at least two children that are text blocks or structural
\* blocks with a child list; a level with fewer is left without a pipeline.
C26_InsideOut ==
    /\ [][pc' = "collect" /\ pc # "collect" =>
             /\ LoopEnds
             /\ Cardinality(Qualifying(Top.parent)) >= 2
             /\ stack'[Len(stack')].count = Cardinality(Qualifying(Top.parent))]_vars
    /\ [][LoopEnds /\ Cardinality(Qualifying(Top.parent)) <= 1 =>
             pc' = "leveldone" /\ UNCHANGED heap]_vars
    /\ [][pc = "scan" /\ stack' # stack => LoopEnds \/ Recurses]_vars
    /\ [][Len(stack') < Len(stack) =>
             \/ pc = "leveldone" /\ Len(stack') = Len(stack) - 1
             \/ pc' = "thrown"]_vars
    /\ [][Len(stack') > Len(stack) => Recurses \/ stack = <<>>]_vars

\* the pipeline of a level starts whose children were hunted before it
C26_Witness ==
    /\ pc = "collect"
    /\ \E i \in 1..Len(FwdList(Heap, Top.parent)) :
           HasChildList(FwdList(Heap, Top.parent)[i])

(***************************************************************************)
(* C27: whenever fz_table_hunt has come back to its caller, by return or   *)
(* by an exception, and whenever a level of do_table_hunt has returned,    *)
(* the two event lists, the two position lists, the cell matrix and the    *)
(* span bitmap sent_tab have been freed.                                   *)
(***************************************************************************)
Released ==
    /\ xs = <<>> /\ ys = <<>>
    /\ xps = EmptyPositions /\ yps = EmptyPositions
    /\ cells = NoCells
    /\ sent = <<>>

C27_ScratchReleased ==
    pc \in {"scan", "done", "thrown"} => Released

(***************************************************************************)
(* C28: while make_table_positions walks a sanitized event list the        *)
(* running wind never drops below 0, and no divider it makes carries a     *)
(* negative uncertainty.                                                   *)
(***************************************************************************)
\* wind after the first i entries (lines 666 and 672)
RECURSIVE WindAfter(_, _)
WindAfter(l, i) ==
    IF i = 0 THEN 0
    ELSE WindAfter(l, i - 1) + (IF l[i].left = 1 THEN l[i].freq ELSE 0 - l[i].freq)

WindIsCount(l) == \A i \in 1..Len(l) : WindAfter(l, i) >= 0

UncertaintyIsCount(p) == \A i \in 1..Len(p.list) : p.list[i].uncertainty >= 0

C28_WindNeverNegative ==
    pc = "positions" =>
        /\ WindIsCount(xs) /\ WindIsCount(ys)
        /\ \E p \in {Positions} : UncertaintyIsCount(p.x) /\ UncertaintyIsCount(p.y)

(***************************************************************************)
(* C29: the X event list of a level, and the sanitized list made of it,    *)
(* are the same in whatever order the lines of the level are visited: the  *)
(* list depends on the pushed events only, not on the order of the pushes. *)
(***************************************************************************)
Perms(n) == {f \in [1..n -> 1..n] : \A i, j \in 1..n : f[i] = f[j] => i = j}

\* the lines ls visited in the order f
Visit(ls, f) == [i \in 1..Len(ls) |-> ls[f[i]]]

SameListInOrder(h, ls, f) ==
    /\ PushAll(<<>>, LinesEvents(h, Visit(ls, f))) = PushAll(<<>>, LinesEvents(h, ls))
    /\ SanitizePositions(PushAll(<<>>, LinesEvents(h, Visit(ls, f))))
           = SanitizePositions(PushAll(<<>>, LinesEvents(h, ls)))

C29_EventOrderIndependence ==
    pc = "collect" =>
        \A f \in Perms(Len(LevelLines(Heap, Top.parent))) :
            SameListInOrder(Heap, LevelLines(Heap, Top.parent), f)

(***************************************************************************)
(* C30: after hunting, the node of every structural block in the child     *)
(* list of a node P, or of the page (P = NULL), has parent = P and up =    *)
(* that block.                                                             *)
(***************************************************************************)
\* the structural blocks with a node in the child list of parent
NodesIn(h, parent) ==
    SelectSeq(FwdList(h, parent),
              LAMBDA b : h.blocks[b].type = "struct" /\ h.blocks[b].down # NULL)

LinksMatch(h, parent) ==
    \A i \in 1..Len(NodesIn(h, parent)) :
        \E b \in {NodesIn(h, parent)[i]} :
            /\ h.structs[h.blocks[b].down].parent = parent
            /\ h.structs[h.blocks[b].down].up = b

C30_ParentLinksMatchContainment ==
    pc = "done" => \A parent \in 0..Len(structs) : LinksMatch(Heap, parent)

=============================================================================
